---------------------------- MODULE Spec2Model ----------------------------
(***************************************************************************)
(* Issue-credential v1.0 protocol engine (CredentialManager) as a state    *)
(* machine over the credential exchange record store of one agent.         *)
(* Source: src/aries_cloudagent/protocols/issue_credential/v1_0/manager.py *)
(***************************************************************************)
EXTENDS Naturals, Sequences, FiniteSets

(* ------------------------------ bounds -------------------------------- *)

\* Exchange records the store ever creates (exchange ids 1..MaxRecords).
MaxRecords == 1
\* Largest retries argument a caller passes to issue_credential.
MaxRetries == 1
\* Revocation registry records the registry subsystem ever creates.
MaxRegs == 2
\* Credential offers the issuer capability ever generates (offer nonces).
MaxNonce == 2
\* Exchange records the store ever creates in the inbound specification.
MaxInboundRecords == 2
\* max_cred_num of the registries the registry subsystem creates.
RegSize == 2
\* Calls of the engine in flight at once (tasks of the cooperative scheduler).
MaxProcs == 2
\* Exchanges a holder starts with a proposal in the happy-path specification.
MaxExchanges == 2

(* ------------------------------ values -------------------------------- *)

None == "none"
\* Absent thread, exchange or registry identifier, absent revocation_id.
NoId == 0

STATE_PROPOSAL_SENT == "proposal_sent"
STATE_PROPOSAL_RECEIVED == "proposal_received"
STATE_OFFER_SENT == "offer_sent"
STATE_OFFER_RECEIVED == "offer_received"
STATE_REQUEST_SENT == "request_sent"
STATE_REQUEST_RECEIVED == "request_received"
STATE_ISSUED == "credential_issued"
STATE_CREDENTIAL_RECEIVED == "credential_received"
STATE_ACKED == "credential_acked"

ROLE_ISSUER == "issuer"
ROLE_HOLDER == "holder"
INITIATOR_SELF == "self"
INITIATOR_EXTERNAL == "external"

\* Connections of the agent; inbound messages arrive on one of them.
Conns == {"c1"}
\* Thread ids of conversations a peer started (ids of the peer's messages).
PeerThreads == {11}

\* CRED_DEF_TAGS: the proposal selectors used as the tag query.
CRED_DEF_TAGS == {"schema_id", "cred_def_id"}

\* Cred-def records this agent sent to the ledger (CRED_DEF_SENT_RECORD_TYPE),
\* with their tags; the epoch tag is a string of decimal digits.
SentCredDefs ==
    { [cred_def_id |-> "cd1", schema_id |-> "s1", epoch |-> <<9>>],
      [cred_def_id |-> "cd2", schema_id |-> "s2", epoch |-> <<1, 0>>] }

\* ledger.credential_definition_id2schema_id
LedgerSchemaId(cd) == IF cd = "cd1" THEN "s1" ELSE "s2"
\* ledger.get_schema(schema_id)["attrNames"]
SchemaAttrs(s) == IF s = "s1" THEN {"name", "date"} ELSE {"name"}
\* ledger.get_credential_definition(cd)["value"].get("revocation")
Revocable(cd) == cd = "cd2"

NoOffer == [schema_id |-> None, cred_def_id |-> None, nonce |-> 0]
NoRequest == [cred_def_id |-> None, nonce |-> 0]
NoMetadata == [nonce |-> 0]
NoCredential == [cred_def_id |-> None, rev_reg_id |-> NoId, cred_rev_id |-> NoId]
NoErrorMsg == [code |-> None, en |-> None]

\* Proposals (selectors and preview attribute names) callers and peers supply.
ProposalInputs ==
    { [schema_id |-> None, cred_def_id |-> None, attrs |-> {"name"}],
      [schema_id |-> None, cred_def_id |-> "cd1", attrs |-> {"name", "date"}],
      [schema_id |-> None, cred_def_id |-> "cd1", attrs |-> {"name"}],
      [schema_id |-> None, cred_def_id |-> "cd9", attrs |-> {"name"}] }

\* Indy offers a peer issuer attaches to a credential-offer message.
PeerOffers ==
    { [schema_id |-> "s1", cred_def_id |-> "cd1", nonce |-> 9],
      [schema_id |-> "s2", cred_def_id |-> "cd2", nonce |-> 9] }

\* Indy credential requests a peer holder attaches to a credential-request.
PeerRequests == { [cred_def_id |-> "cd1", nonce |-> 9],
                  [cred_def_id |-> "cd2", nonce |-> 9] }

\* Indy credentials a peer issuer attaches to a credential-issue message.
PeerCredentials ==
    { [cred_def_id |-> "cd1", rev_reg_id |-> NoId, cred_rev_id |-> NoId],
      [cred_def_id |-> "cd2", rev_reg_id |-> 21, cred_rev_id |-> 3] }

\* Attachment lists of an inbound message: none, one, or two payloads.
Attachments(S) ==
    {<<>>} \cup {<<a>> : a \in S} \cup {<<a, b>> : a \in S, b \in S}

\* The transport between the two peers of a connection with nothing in
\* flight: the messages on their way to the issuer and to the holder, in the
\* order they were sent.
NoWire == [toIssuer |-> <<>>, toHolder |-> <<>>]

(* ------------------------------- state -------------------------------- *)

VARIABLES
    store,       \* exchange id -> persisted credential exchange record
    nextId,      \* exchange ids assigned so far
    nextThread,  \* local message ids used as thread ids so far
    cacheOn,     \* a BaseCache is injected in the profile
    preserve,    \* setting preserve_exchange_records
    offerCache,  \* cache entries credential_offer::<cred_def_id>
    requestCache,\* cache entries credential_request::<cd>::<did>::<nonce>
    nonceCtr,    \* offers the issuer capability generated so far
    regs,        \* issuer revocation registry records, by registry id
    pending,     \* revocation-registry-needed notifications not yet served
    task,        \* issue_credential call suspended in a retry sleep
    running,     \* calls in flight that other calls may interleave with
    wire,        \* protocol messages in flight between the two peers
    last         \* what the most recent flow did

vars == <<store, nextId, nextThread, cacheOn, preserve, offerCache,
          requestCache, nonceCtr, regs, pending, task, running, wire, last>>

\* V10CredentialExchange(...): a record with every other field unset.
NewRecord(conn, thid, initiator, role, state, proposal, auto_remove) ==
    [ credential_exchange_id |-> NoId,
      connection_id |-> conn,
      thread_id |-> thid,
      initiator |-> initiator,
      role |-> role,
      state |-> state,
      credential_proposal_dict |-> proposal,
      credential_offer |-> NoOffer,
      credential_request |-> NoRequest,
      credential_request_metadata |-> NoMetadata,
      raw_credential |-> NoCredential,
      credential |-> NoCredential,
      credential_id |-> None,
      schema_id |-> None,
      credential_definition_id |-> None,
      revoc_reg_id |-> NoId,
      revocation_id |-> NoId,
      auto_remove |-> auto_remove,
      error_msg |-> NoErrorMsg ]

\* The log of one flow invocation: the flow, the exchange id of the record it
\* ran on, how it ended ("ok" or the error), the capabilities it called and
\* the revocation-registry-needed notifications it emitted; for
\* issue_credential, which pass of the call this was (1: the caller's call,
\* 2 and up: the recursive calls after a sleep).
LogOfPass(op, id, err, calls, notes, pass) ==
    [op |-> op, id |-> id, err |-> err, calls |-> calls, notes |-> notes,
     pass |-> pass]

Log(op, id, err, calls, notes) == LogOfPass(op, id, err, calls, notes, 1)

\* record.save(session): a record without an id is inserted under a new
\* exchange id, a record with an id overwrites the stored one.
SaveId(rec) ==
    IF rec.credential_exchange_id = NoId THEN nextId + 1
    ELSE rec.credential_exchange_id

Saved(rec) == [rec EXCEPT !.credential_exchange_id = SaveId(rec)]

Save(rec) ==
    /\ store' = [i \in DOMAIN store \cup {SaveId(rec)} |->
                    IF i = SaveId(rec) THEN Saved(rec) ELSE store[i]]
    /\ nextId' = IF rec.credential_exchange_id = NoId THEN nextId + 1 ELSE nextId

\* V10CredentialExchange.retrieve_by_connection_and_thread: the live records
\* tagged with this connection and thread.
ByConnectionAndThread(conn, thid) ==
    {i \in DOMAIN store :
        store[i].connection_id = conn /\ store[i].thread_id = thid}

\* Thread ids an inbound message can carry: a peer's own, or one of ours.
Threads == PeerThreads \cup (1..nextThread)

\* An engine that takes a cache to be there whether one is injected or not.
CacheAssumed == TRUE

\* cache = self._profile.inject_or(BaseCache); if cache: ...
CacheInjected == cacheOn

(* ------------------------------ proposal ------------------------------ *)

create_proposal(conn, proposal, auto_remove) ==
    /\ LET rec == NewRecord(conn, nextThread + 1, INITIATOR_SELF, ROLE_HOLDER,
                            STATE_PROPOSAL_SENT, proposal, auto_remove)
       IN /\ Save(rec)
          /\ last' = Log("create_proposal", SaveId(rec), "ok",
                         {"storage"}, 0)
    /\ nextThread' = nextThread + 1
    /\ UNCHANGED <<cacheOn, preserve, running, offerCache, requestCache, nonceCtr,
                   regs, pending, task>>

receive_proposal(conn, thid, proposal) ==
    /\ LET rec == NewRecord(conn, thid, INITIATOR_EXTERNAL, ROLE_ISSUER,
                            STATE_PROPOSAL_RECEIVED, proposal, ~preserve)
       IN /\ Save(rec)
          /\ last' = Log("receive_proposal", SaveId(rec), "ok",
                         {"storage"}, 0)
    /\ UNCHANGED <<nextThread, cacheOn, preserve, running, offerCache, requestCache,
                   nonceCtr, regs, pending, task>>

(* ------------------------------- offer -------------------------------- *)

\* A flow that raises: nothing but the log changes.
Fail(op, id, err, calls) ==
    /\ last' = Log(op, id, err, calls, 0)
    /\ UNCHANGED <<store, nextId, nextThread, cacheOn, preserve, running, offerCache,
                   requestCache, nonceCtr, regs, pending, task>>

CredDefIds == {r.cred_def_id : r \in SentCredDefs}

\* counter_proposal=None
NoProposal == [schema_id |-> None, cred_def_id |-> None, attrs |-> {None}]

\* The CRED_DEF_SENT records matching every non-empty selector of the proposal.
FoundCredDefs(proposal) ==
    {r \in SentCredDefs :
        \A t \in CRED_DEF_TAGS : proposal[t] # None => r[t] = proposal[t]}

\* int(text), for a string of decimal digits.
RECURSIVE Decimal(_)
Decimal(digits) ==
    IF digits = <<>> THEN 0
    ELSE 10 * Decimal(SubSeq(digits, 1, Len(digits) - 1)) + digits[Len(digits)]

\* A key that ranks the epoch tags as text, by their leading digit.
EpochAsText(r) == r.epoch[1]

\* key=lambda r: int(r.tags["epoch"])
EpochKey(r) == Decimal(r.epoch)

\* _match_sent_cred_def_id: the matching record of largest epoch (None: the
\* flow raises "no operable cred def").
match_sent_cred_def_id(proposal) ==
    IF FoundCredDefs(proposal) = {} THEN None
    ELSE (CHOOSE r \in FoundCredDefs(proposal) :
             \A q \in FoundCredDefs(proposal) :
                EpochKey(q) <= EpochKey(r)).cred_def_id

\* A vetting that only asks that the schema knows every previewed attribute.
PreviewWithinSchema(preview_attrs, schema_attrs) ==
    preview_attrs \subseteq schema_attrs

\* The vetting of the preview's attribute names against the schema's.
PreviewMatches(preview_attrs, schema_attrs) == preview_attrs = schema_attrs

\* issuer.create_credential_offer(cred_def_id): a new offer with its own nonce.
IssuerCreateOffer(cd) ==
    [schema_id |-> LedgerSchemaId(cd), cred_def_id |-> cd, nonce |-> nonceCtr + 1]

\* An offer that leaves the record's thread id as it finds it.
OfferThreadIdAsGiven(rec) == rec.thread_id

\* The thread id of the offer message: the record's, or the message's own id.
OfferThreadId(rec) ==
    IF rec.thread_id = NoId THEN nextThread + 1 ELSE rec.thread_id

\* The record as create_offer leaves it before the save.
OfferedRecord(rec, proposal, offer) ==
    [rec EXCEPT !.thread_id = OfferThreadId(rec),
                !.schema_id = offer.schema_id,
                !.credential_definition_id = offer.cred_def_id,
                !.state = STATE_OFFER_SENT,
                !.credential_proposal_dict = proposal,
                !.credential_offer = offer]

\* create_offer once the cred-def is chosen and the preview vetted: the offer
\* comes from the cache or the issuer, and the record is saved as OFFER_SENT.
OfferSaved(rec, proposal, cd) ==
    LET hit == CacheInjected /\ offerCache[cd] # NoOffer
        offer == IF hit THEN offerCache[cd] ELSE IssuerCreateOffer(cd)
    IN /\ nonceCtr' = IF hit THEN nonceCtr ELSE nonceCtr + 1
       /\ offerCache' = IF CacheInjected /\ ~hit
                        THEN [offerCache EXCEPT ![cd] = offer]
                        ELSE offerCache
       /\ nextThread' = IF rec.thread_id = NoId THEN nextThread + 1
                        ELSE nextThread
       /\ Save(OfferedRecord(rec, proposal, offer))
       /\ last' = Log("create_offer", SaveId(rec), "ok",
                      {"storage", "ledger"}
                          \cup (IF CacheInjected THEN {"cache"} ELSE {})
                          \cup (IF hit THEN {} ELSE {"issuer"}),
                      0)
       /\ UNCHANGED <<cacheOn, preserve, running, requestCache, regs, pending, task>>

\* A create_offer that obtains the offer first and vets the preview after.
create_offer_vets_late(rec, counter_proposal) ==
    LET proposal == IF counter_proposal # NoProposal THEN counter_proposal
                    ELSE rec.credential_proposal_dict
        cd == match_sent_cred_def_id(proposal)
        id == rec.credential_exchange_id
    IN IF cd = None
       THEN Fail("create_offer", id, "NoUsableCredDef", {"storage"})
       ELSE IF ~PreviewMatches(proposal.attrs, SchemaAttrs(LedgerSchemaId(cd)))
       THEN /\ nonceCtr' = nonceCtr + 1
            /\ offerCache' = IF cacheOn
                             THEN [offerCache EXCEPT ![cd] = IssuerCreateOffer(cd)]
                             ELSE offerCache
            /\ last' = Log("create_offer", id, "PreviewMismatch",
                           {"storage", "ledger", "issuer"}, 0)
            /\ UNCHANGED <<store, nextId, nextThread, cacheOn, preserve, running,
                           requestCache, regs, pending, task>>
       ELSE OfferSaved(rec, proposal, cd)

create_offer(rec, counter_proposal) ==
    LET proposal == IF counter_proposal # NoProposal THEN counter_proposal
                    ELSE rec.credential_proposal_dict
        cd == match_sent_cred_def_id(proposal)
        id == rec.credential_exchange_id
    IN IF cd = None
       THEN Fail("create_offer", id, "NoUsableCredDef", {"storage"})
       ELSE IF ~PreviewMatches(proposal.attrs, SchemaAttrs(LedgerSchemaId(cd)))
       THEN Fail("create_offer", id, "PreviewMismatch", {"storage", "ledger"})
       ELSE OfferSaved(rec, proposal, cd)

\* auto_remove argument: "unset" (None) takes the profile's setting.
AutoRemoveArgs == {"unset", "true", "false"}
AutoRemove(arg) == IF arg = "unset" THEN ~preserve ELSE arg = "true"

prepare_send(conn, proposal, auto_remove) ==
    create_offer(NewRecord(conn, NoId, INITIATOR_SELF, ROLE_ISSUER, None,
                           proposal, AutoRemove(auto_remove)),
                 NoProposal)

\* A lookup that finds no record.
ReceiveOfferFindsNone(conn, thid) == {}

\* try: retrieve_by_connection_and_thread(session, connection_id, thread id)
\* except StorageNotFoundError: a new record.
ReceiveOfferFinds(conn, thid) == ByConnectionAndThread(conn, thid)

receive_offer(conn, thid, preview_attrs, offers_attach) ==
    IF Len(offers_attach) = 0
    THEN Fail("receive_offer", NoId, "IndexError", {})
    ELSE LET indy_offer == offers_attach[1]
             proposal == [schema_id |-> indy_offer.schema_id,
                          cred_def_id |-> indy_offer.cred_def_id,
                          attrs |-> preview_attrs]
             Received(rec) ==
                 [rec EXCEPT !.credential_proposal_dict = proposal,
                             !.credential_offer = indy_offer,
                             !.state = STATE_OFFER_RECEIVED,
                             !.schema_id = indy_offer.schema_id,
                             !.credential_definition_id = indy_offer.cred_def_id]
             fresh == NewRecord(conn, thid, INITIATOR_EXTERNAL, ROLE_HOLDER,
                                None, proposal, ~preserve)
         IN /\ \/ \E i \in ReceiveOfferFinds(conn, thid) :
                     /\ Save(Received(store[i]))
                     /\ last' = Log("receive_offer", i, "ok",
                                    {"storage"}, 0)
               \/ /\ ReceiveOfferFinds(conn, thid) = {}
                  /\ Save(Received(fresh))
                  /\ last' = Log("receive_offer", SaveId(fresh), "ok",
                                 {"storage"}, 0)
            /\ UNCHANGED <<nextThread, cacheOn, preserve, running, offerCache,
                           requestCache, nonceCtr, regs, pending, task>>

(* ------------------------------ request ------------------------------- *)

HolderDids == {"did:ex:h"}

\* A create_request that also takes a record whose offer was sent, not received.
CreateRequestStateLax(rec) ==
    rec.state \in {STATE_OFFER_RECEIVED, STATE_OFFER_SENT}

\* The precondition of create_request.
CreateRequestStateOk(rec) == rec.state = STATE_OFFER_RECEIVED

\* holder.create_credential_request(offer, cred_def, holder_did)
HolderCreateRequest(offer, cd, holder_did) ==
    [request |-> [cred_def_id |-> cd, nonce |-> offer.nonce],
     metadata |-> [nonce |-> offer.nonce]]

\* The cache key credential_request::<cred_def_id>::<holder_did>::<nonce>.
RequestCacheKey(rec, holder_did) ==
    <<rec.credential_definition_id, holder_did, rec.credential_offer.nonce>>

create_request(rec, holder_did) ==
    LET id == rec.credential_exchange_id
        key == RequestCacheKey(rec, holder_did)
        hit == CacheInjected /\ key \in DOMAIN requestCache
        result == IF hit THEN requestCache[key]
                  ELSE HolderCreateRequest(rec.credential_offer,
                                           rec.credential_definition_id,
                                           holder_did)
    IN IF ~CreateRequestStateOk(rec)
       THEN Fail("create_request", id, "WrongState", {})
       ELSE IF rec.credential_request # NoRequest
       THEN /\ Save([rec EXCEPT !.state = STATE_REQUEST_SENT])
            /\ last' = Log("create_request", id, "ok",
                           {"storage"}, 0)
            /\ UNCHANGED <<nextThread, cacheOn, preserve, running, offerCache,
                           requestCache, nonceCtr, regs, pending, task>>
       ELSE /\ Save([rec EXCEPT
                        !.credential_request = result.request,
                        !.credential_request_metadata = result.metadata,
                        !.state = STATE_REQUEST_SENT])
            /\ requestCache' =
                   IF CacheInjected /\ ~hit
                   THEN [k \in DOMAIN requestCache \cup {key} |->
                            IF k = key THEN result ELSE requestCache[k]]
                   ELSE requestCache
            /\ last' = Log("create_request", id, "ok",
                           {"storage"}
                               \cup (IF CacheInjected THEN {"cache"} ELSE {})
                               \cup (IF hit THEN {} ELSE {"ledger", "holder"}),
                           0)
            /\ UNCHANGED <<nextThread, cacheOn, preserve, running, offerCache,
                           nonceCtr, regs, pending, task>>

\* A lookup by thread alone, whatever the connection of the record.
ByThreadAnyConnection(thid) == {i \in DOMAIN store : store[i].thread_id = thid}

\* retrieve_by_tag_filter({"thread_id": thid}, {"connection_id": None})
ByThreadNoConnection(thid) ==
    {i \in DOMAIN store :
        store[i].thread_id = thid /\ store[i].connection_id = None}

receive_request(conn, thid, requests_attach) ==
    LET Received(rec) ==
            [rec EXCEPT !.connection_id = conn,
                        !.credential_request = requests_attach[1],
                        !.state = STATE_REQUEST_RECEIVED]
    IN IF Len(requests_attach) # 1
       THEN Fail("receive_request", NoId, "AssertionError", {})
       ELSE IF ByConnectionAndThread(conn, thid) # {}
       THEN /\ \E i \in ByConnectionAndThread(conn, thid) :
                  /\ Save(Received(store[i]))
                  /\ last' = Log("receive_request", i, "ok",
                                 {"storage"}, 0)
            /\ UNCHANGED <<nextThread, cacheOn, preserve, running, offerCache,
                           requestCache, nonceCtr, regs, pending, task>>
       ELSE IF ByThreadNoConnection(thid) # {}
       THEN /\ \E i \in ByThreadNoConnection(thid) :
                  /\ Save(Received(store[i]))
                  /\ last' = Log("receive_request", i, "ok",
                                 {"storage"}, 0)
            /\ UNCHANGED <<nextThread, cacheOn, preserve, running, offerCache,
                           requestCache, nonceCtr, regs, pending, task>>
       ELSE Fail("receive_request", NoId, "CantStartFromRequest",
                 {"storage"})

(* ----------------------- credential, store, ack ----------------------- *)

receive_credential(conn, thid, credentials_attach) ==
    IF Len(credentials_attach) # 1
    THEN Fail("receive_credential", NoId, "AssertionError", {})
    ELSE IF ByConnectionAndThread(conn, thid) = {}
    THEN Fail("receive_credential", NoId, "StorageNotFound", {"storage"})
    ELSE /\ \E i \in ByConnectionAndThread(conn, thid) :
               /\ Save([store[i] EXCEPT
                           !.raw_credential = credentials_attach[1],
                           !.state = STATE_CREDENTIAL_RECEIVED])
               /\ last' = Log("receive_credential", i, "ok",
                              {"storage"}, 0)
         /\ UNCHANGED <<nextThread, cacheOn, preserve, running, offerCache,
                        requestCache, nonceCtr, regs, pending, task>>

\* A store_credential that takes only a credential already acked.
StoreCredentialStateAcked(rec) == rec.state = STATE_ACKED

\* The precondition of store_credential.
StoreCredentialStateOk(rec) == rec.state = STATE_CREDENTIAL_RECEIVED

\* credential_id argument of store_credential (None: the wallet chooses).
CredentialIdArgs == {None, "cred-1"}

\* holder.store_credential(...) returns the id under which it stored.
HolderStoredId(credential_id) ==
    IF credential_id = None THEN "wallet-id" ELSE credential_id

\* holder.get_credential(credential_id): the stored credential, with its
\* registry id and revocation index when it is revocable.
HolderGetCredential(raw) ==
    [raw EXCEPT !.cred_rev_id =
        IF raw.rev_reg_id = NoId THEN NoId ELSE raw.cred_rev_id]

\* A store_credential that also marks the exchange as acked.
StoredAndAcked(rec, credential_id, credential) ==
    [rec EXCEPT !.credential_id = credential_id,
                !.credential = credential,
                !.revoc_reg_id = credential.rev_reg_id,
                !.revocation_id = credential.cred_rev_id,
                !.state = STATE_ACKED]

\* The record as store_credential leaves it before the save.
StoredRecord(rec, credential_id, credential) ==
    [rec EXCEPT !.credential_id = credential_id,
                !.credential = credential,
                !.revoc_reg_id = credential.rev_reg_id,
                !.revocation_id = credential.cred_rev_id]

store_credential(rec, credential_id, holder_accepts) ==
    LET id == rec.credential_exchange_id
        credential == HolderGetCredential(rec.raw_credential)
    IN IF ~StoreCredentialStateOk(rec)
       THEN Fail("store_credential", id, "WrongState", {})
       ELSE IF ~holder_accepts
       THEN Fail("store_credential", id, "HolderStoreFailure",
                 {"ledger", "holder"})
       ELSE /\ Save(StoredRecord(rec, HolderStoredId(credential_id),
                              credential))
            /\ last' = Log("store_credential", id, "ok",
                           {"ledger", "holder", "storage"}, 0)
            /\ UNCHANGED <<nextThread, cacheOn, preserve, running, offerCache,
                           requestCache, nonceCtr, regs, pending, task>>

\* record.delete_record(session)
Delete(id) == store' = [i \in DOMAIN store \ {id} |-> store[i]]

\* An engine that keeps every record after the ack.
NeverRemoveOnAck(rec) == FALSE

\* if cred_ex_record.auto_remove: all done, delete.
RemoveOnAck(rec) == rec.auto_remove

\* How the storage answers send_credential_ack's save and delete.
StorageAnswers == {"ok", "save_fails", "delete_fails"}

\* An engine that owes the ack only for a record it could persist.
AckSentIfPersisted(storage, responder) == responder /\ storage = "ok"

\* responder = inject_or(BaseResponder); if responder: send_reply(ack).
AckSent(storage, responder) == responder

\* send_credential_ack under a profile with or without a BaseResponder.
send_credential_ack(rec, storage, responder) ==
    LET id == rec.credential_exchange_id
        acked == [rec EXCEPT !.state = STATE_ACKED]
    IN /\ IF storage = "save_fails"
          THEN UNCHANGED store
          ELSE IF RemoveOnAck(rec) /\ storage = "ok"
          THEN Delete(id)
          ELSE store' = [store EXCEPT ![id] = acked]
       /\ last' = Log("send_credential_ack", id, "ok",
                      {"storage"}
                          \cup (IF storage = "ok" THEN {} ELSE {"logger"})
                          \cup (IF AckSent(storage, responder)
                                THEN {"responder"} ELSE {"warning"}),
                      0)
       /\ UNCHANGED <<nextId, nextThread, cacheOn, preserve, running, offerCache,
                      requestCache, nonceCtr, regs, pending, task>>

receive_credential_ack(conn, thid) ==
    IF ByConnectionAndThread(conn, thid) = {}
    THEN Fail("receive_credential_ack", NoId, "StorageNotFound",
              {"storage"})
    ELSE /\ \E i \in ByConnectionAndThread(conn, thid) :
               /\ IF RemoveOnAck(store[i])
                  THEN Delete(i)
                  ELSE store' = [store EXCEPT ![i].state = STATE_ACKED]
               /\ last' = Log("receive_credential_ack", i,
                              "ok", {"storage"}, 0)
         /\ UNCHANGED <<nextId, nextThread, cacheOn, preserve, running, offerCache,
                        requestCache, nonceCtr, regs, pending, task>>

(* --------------------------- problem report --------------------------- *)

\* ProblemReportReason.ISSUANCE_ABANDONED.value
ISSUANCE_ABANDONED == "issuance-abandoned"

\* description of an inbound problem-report (None: the key is absent).
Descriptions ==
    { [code |-> "abandoned-consent", en |-> "user declined"],
      [code |-> "abandoned-consent", en |-> None],
      [code |-> None, en |-> "user declined"],
      [code |-> None, en |-> None] }

\* An error message built from the description's keys as they come.
ErrorMsgAsGiven(description) == description

\* f"{code}: {message.description.get('en', code)}", kept as its two parts.
ErrorMsg(description) ==
    LET code == IF description.code = None THEN ISSUANCE_ABANDONED
                ELSE description.code
    IN [code |-> code,
        en |-> IF description.en = None THEN code ELSE description.en]

receive_problem_report(conn, thid, description) ==
    IF ByConnectionAndThread(conn, thid) = {}
    THEN Fail("receive_problem_report", NoId, "StorageNotFound",
              {"storage"})
    ELSE /\ \E i \in ByConnectionAndThread(conn, thid) :
               /\ Save([store[i] EXCEPT !.state = None,
                                        !.error_msg = ErrorMsg(description)])
               /\ last' = Log("receive_problem_report", i,
                              "ok", {"storage"}, 0)
         /\ UNCHANGED <<nextThread, cacheOn, preserve, running, offerCache,
                        requestCache, nonceCtr, regs, pending, task>>

(* ------------------------ revocation registries ----------------------- *)

REG_POSTED == "posted"
REG_ACTIVE == "active"
REG_FULL == "full"

RegIds == 1..Len(regs)

\* IssuerRevRegRecord.query_by_cred_def_id(session, cd, state)
RegsInState(cd, state) ==
    {i \in RegIds : regs[i].cred_def_id = cd /\ regs[i].state = state}

\* revoc.get_active_issuer_rev_reg_record(cd): StorageNotFound when none.
ActiveRegId(cd) ==
    IF RegsInState(cd, REG_ACTIVE) = {} THEN NoId
    ELSE CHOOSE i \in RegsInState(cd, REG_ACTIVE) :
            \A j \in RegsInState(cd, REG_ACTIVE) : i <= j

\* notify_revocation_reg_event, n times. Notifications beyond those the
\* registry subsystem will ever serve are not kept.
Notify(n) ==
    pending' = IF pending + n > MaxRegs THEN MaxRegs ELSE pending + n

\* active_rev_reg_rec.set_state(session, STATE_FULL)
SetFull(i) == [regs EXCEPT ![i].state = REG_FULL]

\* The registry subsystem serves one notification: a new registry, posted.
registry_post(cd) ==
    /\ pending > 0
    /\ Len(regs) < MaxRegs
    /\ regs' = Append(regs, [cred_def_id |-> cd, state |-> REG_POSTED,
                             max_cred_num |-> RegSize, count |-> 0])
    /\ pending' = pending - 1
    /\ last' = Log("registry_post", NoId, "ok", {}, 0)
    /\ UNCHANGED <<store, nextId, nextThread, cacheOn, preserve, running, offerCache,
                   requestCache, nonceCtr, task>>

\* The registry subsystem makes a posted registry the active one.
registry_activate(i) ==
    /\ regs[i].state = REG_POSTED
    /\ RegsInState(regs[i].cred_def_id, REG_ACTIVE) = {}
    /\ regs' = [regs EXCEPT ![i].state = REG_ACTIVE]
    /\ last' = Log("registry_activate", NoId, "ok", {}, 0)
    /\ UNCHANGED <<store, nextId, nextThread, cacheOn, preserve, running, offerCache,
                   requestCache, nonceCtr, pending, task>>

\* A duelling instance of the agent issues from the active registry ...
duelling_create_credential(i) ==
    /\ regs[i].state = REG_ACTIVE
    /\ regs[i].count < regs[i].max_cred_num
    /\ regs' = [regs EXCEPT ![i].count = @ + 1]
    /\ last' = Log("duelling_create_credential", NoId, "ok", {"issuer"}, 0)
    /\ UNCHANGED <<store, nextId, nextThread, cacheOn, preserve, running, offerCache,
                   requestCache, nonceCtr, pending, task>>

\* ... and, having taken the last slot, marks it full and asks for the next.
duelling_set_full(i) ==
    /\ regs[i].state = REG_ACTIVE
    /\ regs[i].count = regs[i].max_cred_num
    /\ regs' = SetFull(i)
    /\ Notify(1)
    /\ last' = Log("duelling_set_full", NoId, "ok", {"registry"}, 1)
    /\ UNCHANGED <<store, nextId, nextThread, cacheOn, preserve, running, offerCache,
                   requestCache, nonceCtr, task>>

(* ------------------------------ issuance ------------------------------ *)

NoTask ==
    [active |-> FALSE, retries |-> 0, pass |-> 0,
     rec |-> NewRecord(None, NoId, None, None, None, NoProposal, FALSE)]

Sleeping(rec, retries, pass) ==
    [active |-> TRUE, retries |-> retries, pass |-> pass, rec |-> rec]

\* The precondition of issue_credential.
IssueCredentialStateOk(rec) == rec.state = STATE_REQUEST_RECEIVED

\* An issuance that does not note the active registry on the record.
WithoutRevRegId(rec, reg) == rec

\* An issuance that never takes the credential as already created.
CredentialNeverCreated(rec) == FALSE

\* if cred_ex_record.credential: the credential was created by an earlier call.
CredentialCreated(rec) == rec.credential # NoCredential

\* The registry id the record carries into issuer.create_credential.
WithRevRegId(rec, reg) == [rec EXCEPT !.revoc_reg_id = reg]

\* A record that gets its credential and is left in the state it was in.
IssuedRecordStateKept(rec, rev_id) ==
    [rec EXCEPT !.revocation_id = rev_id,
                !.credential = [cred_def_id |-> rec.credential_definition_id,
                                rev_reg_id |-> IF rev_id = NoId THEN NoId
                                               ELSE rec.revoc_reg_id,
                                cred_rev_id |-> rev_id]]

\* The record as issue_credential leaves it before the save.
IssuedRecord(rec, rev_id) ==
    [rec EXCEPT !.revocation_id = rev_id,
                !.credential = [cred_def_id |-> rec.credential_definition_id,
                                rev_reg_id |-> IF rev_id = NoId THEN NoId
                                               ELSE rec.revoc_reg_id,
                                cred_rev_id |-> rev_id],
                !.state = STATE_ISSUED]

\* Two notifications whatever the registries of the cred-def.
NotesWhateverPosted(cd) == 2

\* With no active registry: the next two registries are asked for, unless
\* one is posted already.
NoRegistryNotes(cd) == IF RegsInState(cd, REG_POSTED) = {} THEN 2 ELSE 0

\* One pass through issue_credential on the in-memory record, called with
\* this many retries left; a pass that sleeps leaves the call suspended.
IssueAttempt(rec, retries, pass) ==
    LET id == rec.credential_exchange_id
        cd == rec.credential_definition_id
        reg == ActiveRegId(cd)
        End(err, calls, notes) ==
            /\ last' = LogOfPass("issue_credential", id, err, calls,
                                 notes, pass)
            /\ task' = NoTask
            /\ UNCHANGED <<store, nextId>>
        Sleep(r, calls, notes) ==
            /\ last' = LogOfPass("issue_credential", id, "retry", calls,
                                 notes, pass)
            /\ task' = Sleeping(r, retries - 1, pass)
            /\ UNCHANGED <<store, nextId>>
        Finish(r, calls, notes) ==
            /\ Save(r)
            /\ last' = LogOfPass("issue_credential", id, "ok",
                                 calls \cup {"storage"}, notes, pass)
            /\ task' = NoTask
    IN /\ IF ~IssueCredentialStateOk(rec)
          THEN End("WrongState", {}, 0) /\ UNCHANGED <<regs, pending>>
          ELSE IF CredentialCreated(rec)
          THEN /\ Finish([rec EXCEPT !.state = STATE_ISSUED], {}, 0)
               /\ UNCHANGED <<regs, pending>>
          ELSE IF rec.credential_offer = NoOffer
          THEN End("AttributeError", {}, 0) /\ UNCHANGED <<regs, pending>>
          ELSE IF ~Revocable(cd)
          THEN /\ Finish(IssuedRecord(rec, NoId), {"ledger", "issuer"}, 0)
               /\ UNCHANGED <<regs, pending>>
          ELSE IF reg = NoId
          THEN LET notes == NoRegistryNotes(cd)
               IN /\ Notify(notes)
                  /\ UNCHANGED regs
                  /\ IF retries > 0
                     THEN Sleep(rec, {"ledger", "registry"}, notes)
                     ELSE End("NoActiveRevocationRegistry",
                              {"ledger", "registry"}, notes)
          ELSE IF regs[reg].count >= regs[reg].max_cred_num
          THEN /\ regs' = SetFull(reg)
               /\ UNCHANGED pending
               /\ IF retries > 0
                  THEN Sleep(WithRevRegId(rec, reg),
                             {"ledger", "registry", "issuer"}, 0)
                  ELSE End("RevocationRegistryFull",
                           {"ledger", "registry", "issuer"}, 0)
          ELSE LET rev_id == regs[reg].count + 1
                   full == regs[reg].max_cred_num = rev_id
               IN /\ regs' = [regs EXCEPT
                                 ![reg].count = rev_id,
                                 ![reg].state = IF full THEN REG_FULL ELSE @]
                  /\ Notify(IF full THEN 1 ELSE 0)
                  /\ Finish(IssuedRecord(WithRevRegId(rec, reg), rev_id),
                            {"ledger", "registry", "issuer"},
                            IF full THEN 1 ELSE 0)
       /\ UNCHANGED <<nextThread, cacheOn, preserve, running, offerCache,
                      requestCache, nonceCtr>>

\* issue_credential(cred_ex_record, retries=retries), on a record the caller
\* has just loaded.
issue_credential(id, retries) ==
    /\ ~task.active
    /\ IssueAttempt(store[id], retries, 1)

\* The recursive call after the sleep, on the same in-memory record.
issue_credential_retry ==
    /\ task.active
    /\ IssueAttempt(task.rec, task.retries, task.pass + 1)


(* ---------------------------- specification --------------------------- *)

Init ==
    /\ store = <<>>
    /\ nextId = 0
    /\ nextThread = 0
    /\ cacheOn \in BOOLEAN
    /\ preserve \in BOOLEAN
    /\ offerCache = [cd \in CredDefIds |-> NoOffer]
    /\ requestCache = <<>>
    /\ nonceCtr = 0
    /\ regs = <<>>
    /\ pending = 0
    /\ task = NoTask
    /\ running = <<>>
    /\ wire = NoWire
    /\ last = Log("init", NoId, "ok", {}, 0)

\* The whole protocol on one exchange, every payload drawn from one value:
\* a proposal for the non-revocable cred-def cd1 and a peer's cd1 payloads.
Proposal1 == [schema_id |-> None, cred_def_id |-> "cd1",
              attrs |-> {"name", "date"}]
Offer1 == [schema_id |-> "s1", cred_def_id |-> "cd1", nonce |-> 9]
Request1 == [cred_def_id |-> "cd1", nonce |-> 9]
Credential1 == [cred_def_id |-> "cd1", rev_reg_id |-> NoId, cred_rev_id |-> NoId]
Description1 == [code |-> "abandoned-consent", en |-> "user declined"]

InBounds == nextId <= MaxRecords /\ nonceCtr <= MaxNonce

Next ==
    \/ \E c \in Conns :
          create_proposal(c, Proposal1, AutoRemove("unset")) /\ InBounds'
          /\ UNCHANGED wire
    \/ \E c \in Conns, t \in Threads :
          receive_proposal(c, t, Proposal1) /\ InBounds' /\ UNCHANGED wire
    \/ \E i \in DOMAIN store, p \in {Proposal1, NoProposal} :
          create_offer(store[i], p) /\ InBounds' /\ UNCHANGED wire
    \/ \E c \in Conns \cup {None} :
          prepare_send(c, Proposal1, "unset") /\ InBounds' /\ UNCHANGED wire
    \/ \E c \in Conns, t \in Threads, o \in Attachments({Offer1}) :
          receive_offer(c, t, {"name", "date"}, o) /\ InBounds'
          /\ UNCHANGED wire
    \/ \E i \in DOMAIN store, d \in HolderDids : create_request(store[i], d)
          /\ UNCHANGED wire
    \/ \E c \in Conns, t \in Threads, r \in Attachments({Request1}) :
          receive_request(c, t, r) /\ UNCHANGED wire
    \/ \E i \in DOMAIN store, r \in 0..MaxRetries : issue_credential(i, r)
          /\ UNCHANGED wire
    \/ \E c \in Conns, t \in Threads, a \in Attachments({Credential1}) :
          receive_credential(c, t, a) /\ UNCHANGED wire
    \/ \E i \in DOMAIN store, ok \in BOOLEAN :
          store_credential(store[i], None, ok) /\ UNCHANGED wire
    \/ \E i \in DOMAIN store, s \in StorageAnswers, r \in BOOLEAN :
          send_credential_ack(store[i], s, r) /\ UNCHANGED wire
    \/ \E c \in Conns, t \in Threads : receive_credential_ack(c, t)
          /\ UNCHANGED wire
    \/ \E c \in Conns, t \in Threads :
          receive_problem_report(c, t, Description1) /\ UNCHANGED wire

Spec == Init /\ [][Next]_vars

(* ------------------------- state machine claims ----------------------- *)

\* The legal transitions of the exchange state machine.
LegalEdges ==
    { <<STATE_PROPOSAL_RECEIVED, STATE_OFFER_SENT>>,
      <<STATE_PROPOSAL_SENT, STATE_OFFER_RECEIVED>>,
      <<STATE_OFFER_RECEIVED, STATE_REQUEST_SENT>>,
      <<STATE_OFFER_SENT, STATE_REQUEST_RECEIVED>>,
      <<STATE_REQUEST_RECEIVED, STATE_ISSUED>>,
      <<STATE_REQUEST_SENT, STATE_CREDENTIAL_RECEIVED>>,
      <<STATE_CREDENTIAL_RECEIVED, STATE_ACKED>>,
      <<STATE_ISSUED, STATE_ACKED>> }

\* The states a record may be created in.
CreationStates ==
    {STATE_PROPOSAL_SENT, STATE_PROPOSAL_RECEIVED, STATE_OFFER_SENT,
     STATE_OFFER_RECEIVED}

\* C1: every persisted change of a record's state follows an edge of the
\* transition table (a problem report may abandon from any state), and a
\* record is created in a state the table creates records in.
C1_OnlyLegalTransitions ==
    [][\A i \in DOMAIN store' :
          IF i \in DOMAIN store
          THEN \/ store'[i].state = store[i].state
               \/ store'[i].state = None
               \/ <<store[i].state, store'[i].state>> \in LegalEdges
          ELSE store'[i].state \in CreationStates]_vars

\* The flows that check the record's state first, and the state each requires.
GuardedFlows == {"create_request", "issue_credential", "store_credential"}
RequiredState(op) ==
    IF op = "create_request" THEN STATE_OFFER_RECEIVED
    ELSE IF op = "issue_credential" THEN STATE_REQUEST_RECEIVED
    ELSE STATE_CREDENTIAL_RECEIVED

\* C2: create_request, issue_credential and store_credential, invoked on a
\* record that is not in the state the flow requires, fail with the wrong
\* state error having called no capability and emitted no notification, and
\* leave the store, the caches and the registries as they were.
C2_WrongStateFailsFirst ==
    [][\A i \in DOMAIN store :
          (/\ last'.op \in GuardedFlows
           /\ last'.id = i
           /\ store[i].state # RequiredState(last'.op))
          => /\ last'.err = "WrongState"
             /\ last'.calls = {}
             /\ last'.notes = 0
             /\ UNCHANGED <<store, nextId, nextThread, offerCache,
                            requestCache, nonceCtr, regs, pending, task>>]_vars

\* A guarded flow has just failed on an abandoned record (state null).
C2_Witness ==
    /\ last.op \in GuardedFlows
    /\ last.err = "WrongState"
    /\ last.id \in DOMAIN store
    /\ store[last.id].state = None
    /\ store[last.id].error_msg # NoErrorMsg

\* C3: receive_credential on a record that is not in REQUEST_SENT fails and
\* leaves the persisted record unchanged.
C3_ReceiveCredentialOnlyFromRequestSent ==
    [][\A i \in DOMAIN store :
          (/\ last'.op = "receive_credential"
           /\ last'.id = i
           /\ store[i].state # STATE_REQUEST_SENT)
          => last'.err # "ok" /\ store' = store]_vars

\* C4: a record's persisted state becomes ACKED only from CREDENTIAL_RECEIVED
\* by send_ack or from ISSUED by receive_ack.
C4_AckedOnlyFromFinalStates ==
    [][\A i \in DOMAIN store \cap DOMAIN store' :
          (store'[i].state = STATE_ACKED /\ store[i].state # STATE_ACKED)
          => \/ /\ last'.op = "send_credential_ack"
                /\ store[i].state = STATE_CREDENTIAL_RECEIVED
             \/ /\ last'.op = "receive_credential_ack"
                /\ store[i].state = STATE_ISSUED]_vars

\* C7: when store_credential calls the holder to store the credential, the
\* record's request metadata is present.
C7_MetadataPresentAtStore ==
    (last.op = "store_credential" /\ "holder" \in last.calls)
    => store[last.id].credential_request_metadata # NoMetadata

(* -------------------------- offer specification ----------------------- *)

\* The flows that create records and write their proposal, offer, schema and
\* cred-def, with every proposal and peer offer, on one exchange.
NextOffer ==
    \/ \E c \in Conns, p \in ProposalInputs :
          create_proposal(c, p, AutoRemove("unset")) /\ InBounds'
          /\ UNCHANGED wire
    \/ \E c \in Conns, t \in Threads, p \in ProposalInputs :
          receive_proposal(c, t, p) /\ InBounds' /\ UNCHANGED wire
    \/ \E i \in DOMAIN store, p \in ProposalInputs \cup {NoProposal} :
          create_offer(store[i], p) /\ InBounds' /\ UNCHANGED wire
    \/ \E c \in Conns, p \in ProposalInputs :
          prepare_send(c, p, "unset") /\ InBounds' /\ UNCHANGED wire
    \/ \E c \in Conns, t \in Threads, o \in Attachments(PeerOffers) :
          \E pv \in {SchemaAttrs(s) : s \in {"s1", "s2"}} :
             receive_offer(c, t, pv, o) /\ InBounds' /\ UNCHANGED wire
    \/ \E c \in Conns, t \in Threads :
          receive_problem_report(c, t, Description1) /\ UNCHANGED wire

SpecOffer == Init /\ [][NextOffer]_vars

\* C6: once a record's credential_definition_id is set, no flow persists a
\* different value for it.
C6_CredDefNeverReassigned ==
    [][\A i \in DOMAIN store \cap DOMAIN store' :
          store[i].credential_definition_id # None
          => store'[i].credential_definition_id
                = store[i].credential_definition_id]_vars

\* C9: after create_offer succeeds, the attribute names of the preview
\* recorded on the exchange are exactly the attrNames of the schema of the
\* cred-def recorded on it.
C9_PreviewEqualsSchemaAttrs ==
    (last.op = "create_offer" /\ last.err = "ok")
    => store[last.id].credential_proposal_dict.attrs
          = SchemaAttrs(LedgerSchemaId(store[last.id].credential_definition_id))

\* create_offer has succeeded for the two-attribute schema of cd1.
C9_Witness ==
    /\ last.op = "create_offer"
    /\ last.err = "ok"
    /\ store[last.id].state = STATE_OFFER_SENT
    /\ store[last.id].credential_definition_id = "cd1"
    /\ store[last.id].credential_proposal_dict.attrs = {"name", "date"}

\* C10: a create_offer that fails for want of a usable cred-def or on a
\* preview mismatch has not called the issuer or the cache and leaves the
\* store (every record's state, offer, schema and cred-def), the offer cache
\* and the issuer's offers as they were.
C10_FailedOfferChangesNothing ==
    [][(/\ last'.op = "create_offer"
        /\ last'.err \in {"NoUsableCredDef", "PreviewMismatch"})
       => /\ "issuer" \notin last'.calls
          /\ "cache" \notin last'.calls
          /\ UNCHANGED <<store, nextId, nextThread, offerCache,
                         requestCache, nonceCtr>>]_vars

\* create_offer has just failed on a preview mismatch, on a stored record
\* that awaited an offer.
C10_Witness ==
    /\ last.op = "create_offer"
    /\ last.err = "PreviewMismatch"
    /\ last.id \in DOMAIN store
    /\ store[last.id].state = STATE_PROPOSAL_RECEIVED

(* ------------------------- inbound specification ---------------------- *)

\* The flows driven by a peer's messages, with one payload of each kind, on up
\* to two exchange records: the same message may arrive more than once.
InboundInBounds == nextId <= MaxInboundRecords

NextInbound ==
    \/ \E c \in Conns, t \in Threads :
          receive_proposal(c, t, Proposal1) /\ InboundInBounds'
          /\ UNCHANGED wire
    \/ \E c \in Conns, t \in Threads, o \in Attachments({Offer1}) :
          receive_offer(c, t, {"name", "date"}, o) /\ InboundInBounds'
          /\ UNCHANGED wire
    \/ \E c \in Conns, t \in Threads, r \in Attachments({Request1}) :
          receive_request(c, t, r) /\ UNCHANGED wire
    \/ \E c \in Conns, t \in Threads, a \in Attachments({Credential1}) :
          receive_credential(c, t, a) /\ UNCHANGED wire
    \/ \E c \in Conns, t \in Threads : receive_credential_ack(c, t)
          /\ UNCHANGED wire
    \/ \E c \in Conns, t \in Threads :
          receive_problem_report(c, t, Description1) /\ UNCHANGED wire

SpecInbound == Init /\ [][NextInbound]_vars

\* C5: the store holds at most one record per connection and thread.
C5_OneRecordPerConnectionAndThread ==
    \A i, j \in DOMAIN store :
        (/\ store[i].connection_id = store[j].connection_id
         /\ store[i].thread_id = store[j].thread_id)
        => i = j

(* ------------------------- issuance specification --------------------- *)

\* A proposal that selects no cred-def: the most recent one, cd2, is chosen.
Proposal2 == [schema_id |-> None, cred_def_id |-> None, attrs |-> {"name"}]

\* The flows that write a record's revocation identifiers, on one exchange
\* under a revocable or a non-revocable cred-def, with the registry subsystem
\* and a duelling instance acting on the registries.
NextIssue ==
    \/ \E c \in Conns, p \in {Proposal1, Proposal2} :
          prepare_send(c, p, "unset") /\ InBounds' /\ UNCHANGED wire
    \/ \E c \in Conns, t \in Threads, r \in Attachments({Request1}) :
          receive_request(c, t, r) /\ UNCHANGED wire
    \/ \E i \in DOMAIN store, r \in 0..MaxRetries : issue_credential(i, r)
          /\ UNCHANGED wire
    \/ issue_credential_retry /\ UNCHANGED wire
    \/ \E cd \in {c \in CredDefIds : Revocable(c)} : registry_post(cd)
          /\ UNCHANGED wire
    \/ \E i \in RegIds : registry_activate(i) /\ UNCHANGED wire
    \/ \E i \in RegIds : duelling_create_credential(i) /\ UNCHANGED wire
    \/ \E i \in RegIds : duelling_set_full(i) /\ UNCHANGED wire
    \/ \E c \in Conns, t \in Threads, a \in PeerCredentials :
          receive_credential(c, t, <<a>>) /\ UNCHANGED wire
    \/ \E i \in DOMAIN store, ok \in BOOLEAN :
          store_credential(store[i], None, ok) /\ UNCHANGED wire

SpecIssue == Init /\ [][NextIssue]_vars

\* C8: every persisted record that has a revocation_id has a revocation
\* registry id.
C8_RevocationIdImpliesRegistryId ==
    \A i \in DOMAIN store :
        store[i].revocation_id # NoId => store[i].revoc_reg_id # NoId

\* issue_credential found the active registry full, marked it so, slept, and
\* in its second pass issued from the next registry.
C8_Witness ==
    /\ last.op = "issue_credential"
    /\ last.err = "ok"
    /\ last.pass = 2
    /\ pending = 0
    /\ store[last.id].state = STATE_ISSUED
    /\ store[last.id].revoc_reg_id = 2
    /\ store[last.id].revocation_id = 1
    /\ regs[1].state = REG_FULL
(* --------------------------- calls in flight -------------------------- *)

\* The tasks of the scheduler that run calls of the engine.
Procs == 1..MaxProcs

\* The frame of a call in flight: the flow, where it is suspended, its
\* in-memory record and its locals, the capabilities called and the
\* notifications emitted so far.
Frame(flow, pc, rec, proposal, cd, offer, retries, pass, calls, notes) ==
    [flow |-> flow, pc |-> pc, rec |-> rec, proposal |-> proposal, cd |-> cd,
     offer |-> offer, retries |-> retries, pass |-> pass, calls |-> calls,
     notes |-> notes]

\* The call of task p is suspended at pc, or returns or raises.
Suspend(p, frame) ==
    running' = [q \in DOMAIN running \cup {p} |->
                   IF q = p THEN frame ELSE running[q]]
Return(p) == running' = [q \in DOMAIN running \ {p} |-> running[q]]

At(p, flow, pc) ==
    p \in DOMAIN running /\ running[p].flow = flow /\ running[p].pc = pc

(* ------------------------ create_offer, by steps ---------------------- *)

\* Leases on the cache key credential_offer::<cd> held by a task.
OfferLeaseHolders(cd) ==
    {q \in DOMAIN running :
        /\ running[q].flow = "create_offer"
        /\ running[q].cd = cd
        /\ running[q].pc \in {"leased", "set_result"}}

\* cache.acquire(cache_key): the lease is exclusive, a caller waits while
\* another task holds it.
OfferLeaseFree(cd) == OfferLeaseHolders(cd) = {}

\* A caller that never finds a result in the cache entry.
OfferEntryIgnored(cd) == FALSE

\* if entry.result: the entry holds an offer.
OfferEntryHasResult(cd) == offerCache[cd] # NoOffer

\* create_offer up to the cache: the cred-def is chosen and the preview vetted.
create_offer_begin(p, rec, counter_proposal) ==
    LET proposal == IF counter_proposal # NoProposal THEN counter_proposal
                    ELSE rec.credential_proposal_dict
        cd == match_sent_cred_def_id(proposal)
        id == rec.credential_exchange_id
    IN /\ p \notin DOMAIN running
       /\ IF cd = None
          THEN /\ last' = Log("create_offer", id, "NoUsableCredDef",
                              {"storage"}, 0)
               /\ UNCHANGED running
          ELSE IF ~PreviewMatches(proposal.attrs,
                                  SchemaAttrs(LedgerSchemaId(cd)))
          THEN /\ last' = Log("create_offer", id, "PreviewMismatch",
                              {"storage", "ledger"}, 0)
               /\ UNCHANGED running
          ELSE /\ Suspend(p, Frame("create_offer",
                                   IF cacheOn THEN "acquire" ELSE "create",
                                   rec, proposal, cd, NoOffer, 0, 1,
                                   {"storage", "ledger"}, 0))
               /\ UNCHANGED last
       /\ UNCHANGED <<store, nextId, nextThread, cacheOn, preserve,
                      offerCache, requestCache, nonceCtr, regs, pending, task>>

\* async with cache.acquire(cache_key) as entry: entry.result is adopted, or
\* the lease is kept while the offer is generated.
create_offer_acquire(p) ==
    /\ At(p, "create_offer", "acquire")
    /\ OfferLeaseFree(running[p].cd)
    /\ LET f == running[p]
           hit == OfferEntryHasResult(f.cd)
       IN Suspend(p, [f EXCEPT !.pc = IF hit THEN "save" ELSE "leased",
                               !.offer = offerCache[f.cd],
                               !.calls = @ \cup {"cache"}])
    /\ UNCHANGED <<store, nextId, nextThread, cacheOn, preserve, offerCache,
                   requestCache, nonceCtr, regs, pending, task, last>>

\* _create(cred_def_id): issuer.create_credential_offer, inside the lease or
\* without a cache.
create_offer_create(p) ==
    /\ \/ At(p, "create_offer", "leased")
       \/ At(p, "create_offer", "create")
    /\ LET f == running[p]
       IN Suspend(p, [f EXCEPT !.pc = IF f.pc = "leased" THEN "set_result"
                                      ELSE "save",
                               !.offer = IssuerCreateOffer(f.cd),
                               !.calls = @ \cup {"issuer"}])
    /\ nonceCtr' = nonceCtr + 1
    /\ UNCHANGED <<store, nextId, nextThread, cacheOn, preserve, offerCache,
                   requestCache, regs, pending, task, last>>

\* entry.set_result(credential_offer, 3600), and the lease ends.
create_offer_set_result(p) ==
    /\ At(p, "create_offer", "set_result")
    /\ offerCache' = [offerCache EXCEPT ![running[p].cd] = running[p].offer]
    /\ Suspend(p, [running[p] EXCEPT !.pc = "save"])
    /\ UNCHANGED <<store, nextId, nextThread, cacheOn, preserve,
                   requestCache, nonceCtr, regs, pending, task, last>>

\* The record is updated from the offer and saved; the call returns.
create_offer_save(p) ==
    /\ At(p, "create_offer", "save")
    /\ LET f == running[p]
       IN /\ Save(OfferedRecord(f.rec, f.proposal, f.offer))
          /\ nextThread' = IF f.rec.thread_id = NoId THEN nextThread + 1
                           ELSE nextThread
          /\ last' = Log("create_offer", SaveId(f.rec), "ok",
                         f.calls, 0)
    /\ Return(p)
    /\ UNCHANGED <<cacheOn, preserve, offerCache, requestCache, nonceCtr,
                   regs, pending, task>>

(* -------------------------- cache specification ----------------------- *)

\* Offers for the proposals of two peers, created by calls that interleave.
NextCache ==
    \/ \E c \in Conns, t \in Threads, pr \in {Proposal1, Proposal2} :
          receive_proposal(c, t, pr) /\ InboundInBounds' /\ UNCHANGED wire
    \/ \E p \in Procs, i \in DOMAIN store :
          create_offer_begin(p, store[i], NoProposal) /\ UNCHANGED wire
    \/ \E p \in Procs : create_offer_acquire(p) /\ UNCHANGED wire
    \/ \E p \in Procs : create_offer_create(p) /\ nonceCtr' <= MaxNonce
          /\ UNCHANGED wire
    \/ \E p \in Procs : create_offer_set_result(p) /\ UNCHANGED wire
    \/ \E p \in Procs : create_offer_save(p) /\ UNCHANGED wire

SpecCache == Init /\ [][NextCache]_vars

\* The cred-defs for which the issuer's offer is in the cache or on its way
\* into it.
CredDefsOffered ==
    {cd \in CredDefIds :
        \/ offerCache[cd] # NoOffer
        \/ \E q \in DOMAIN running :
              running[q].cd = cd /\ running[q].pc = "set_result"}

\* C11: with a cache, however create_offer calls interleave, the issuer has
\* generated exactly one offer for each cred-def offered, and every call for
\* the same cred-def has the same offer payload.
C11_OneIssuerOfferPerCredDef ==
    cacheOn =>
       /\ nonceCtr = Cardinality(CredDefsOffered)
       /\ \A i, j \in DOMAIN store :
             (/\ store[i].state = STATE_OFFER_SENT
              /\ store[j].state = STATE_OFFER_SENT
              /\ store[i].credential_definition_id
                    = store[j].credential_definition_id)
             => store[i].credential_offer = store[j].credential_offer
       /\ \A q \in DOMAIN running, i \in DOMAIN store :
             (/\ running[q].pc = "save"
              /\ store[i].state = STATE_OFFER_SENT
              /\ store[i].credential_definition_id = running[q].cd)
             => store[i].credential_offer = running[q].offer

\* One call has had the issuer generate the offer and saved it; the other
\* call, on another record and for the same cred-def, took its offer from the
\* cache and is about to save.
C11_Witness ==
    /\ cacheOn
    /\ nonceCtr = 1
    /\ \E q \in DOMAIN running, i \in DOMAIN store :
          /\ running[q].pc = "save"
          /\ "issuer" \notin running[q].calls
          /\ running[q].rec.credential_exchange_id # i
          /\ store[i].state = STATE_OFFER_SENT
          /\ store[i].credential_definition_id = running[q].cd
          /\ store[i].credential_offer = running[q].offer
(* -------------------------- replay specification ---------------------- *)

\* One exchange on which the request and the credential are created more
\* than once, the peer's offer and request arriving again in between, under
\* a revocable or a non-revocable cred-def.
NextReplay ==
    \/ \E c \in Conns, p \in {Proposal1, Proposal2} :
          prepare_send(c, p, "unset") /\ InBounds' /\ UNCHANGED wire
    \/ \E c \in Conns, t \in Threads :
          receive_offer(c, t, {"name", "date"}, <<Offer1>>) /\ InBounds'
          /\ UNCHANGED wire
    \/ \E i \in DOMAIN store, d \in HolderDids : create_request(store[i], d)
          /\ UNCHANGED wire
    \/ \E c \in Conns, t \in Threads :
          receive_request(c, t, <<Request1>>) /\ UNCHANGED wire
    \/ \E i \in DOMAIN store, r \in 0..MaxRetries : issue_credential(i, r)
          /\ UNCHANGED wire
    \/ issue_credential_retry /\ UNCHANGED wire
    \/ \E cd \in {c \in CredDefIds : Revocable(c)} : registry_post(cd)
          /\ UNCHANGED wire
    \/ \E i \in RegIds : registry_activate(i) /\ UNCHANGED wire

SpecReplay == Init /\ [][NextReplay]_vars

\* C12: a create_request called on a record for which an earlier call created
\* the request does not call the holder, and an issue_credential called on a
\* record for which an earlier call created the credential does not call the
\* issuer and changes no revocation registry.
C12_SecondCallHasNoSideEffect ==
    [][\A i \in DOMAIN store :
          (last'.id = i /\ last'.pass = 1)
          => /\ (/\ last'.op = "create_request"
                 /\ store[i].credential_request_metadata # NoMetadata)
                => "holder" \notin last'.calls
             /\ (/\ last'.op = "issue_credential"
                 /\ store[i].credential # NoCredential)
                => /\ "issuer" \notin last'.calls
                   /\ UNCHANGED <<regs, pending>>]_vars

\* issue_credential was called again on a record whose credential, a
\* revocable one, an earlier call had issued and saved.
C12_Witness ==
    /\ last.op = "issue_credential"
    /\ last.pass = 1
    /\ last.id \in DOMAIN store
    /\ store[last.id].state = STATE_ISSUED
    /\ store[last.id].revocation_id # NoId
    /\ last.err = "WrongState"

\* C13: a create_request called on a record that an earlier call left in
\* REQUEST_SENT, and an issue_credential called on a record that an earlier
\* call left in ISSUED, succeeds and leaves the record as it was.
C13_SecondCallSucceeds ==
    [][\A i \in DOMAIN store :
          (/\ last'.id = i
           /\ last'.pass = 1
           /\ \/ /\ last'.op = "create_request"
                 /\ store[i].state = STATE_REQUEST_SENT
              \/ /\ last'.op = "issue_credential"
                 /\ store[i].state = STATE_ISSUED)
          => /\ last'.err = "ok"
             /\ store'[i] = store[i]]_vars
(* ---------------------- issue_credential, by steps -------------------- *)

\* The registry of the record in memory, and the slot it was given.
RegOf(rec) == regs[rec.revoc_reg_id]

\* An issuance that never finds that it took the registry's last slot.
LastSlotNeverSeen(rec) == FALSE

\* if rev_reg and rev_reg.max_creds == int(cred_ex_record.revocation_id)
TookLastSlot(rec) ==
    /\ rec.revoc_reg_id # NoId
    /\ rec.revocation_id = RegOf(rec).max_cred_num

\* A handler of the registry-full error that asks for a new registry.
FullErrorNotifiesOnce(rec) == 1

\* Notifications the handler of the registry-full error emits: none.
FullErrorNotes(rec) == 0

\* A call that gives up at once, whatever retries it has left.
NeverRetries(f) == FALSE

\* if retries > 0, where no registry is active: wait 2 s and retry.
RetryOnNoRegistry(f) == f.retries > 0

\* A call that gives up on a full registry whatever retries it has left.
NeverRetriesOnFull(f) == FALSE

\* if retries > 0, where the registry is full: wait 1 s and retry.
RetryOnFull(f) == f.retries > 0

\* A flow that saves its record as soon as it has changed it.
SavedAtOnce(rec) ==
    [i \in DOMAIN store |->
        IF i = rec.credential_exchange_id THEN rec ELSE store[i]]

\* cred_ex_record.<field> = ...: the flow changes the record it holds in
\* memory; the store is as it was until the flow saves.
KeptInMemory(rec) == store

\* issue_credential up to the registry: the state check, the check for a
\* credential already created, the schema and cred-def from the ledger.
issue_credential_begin(p, id, retries) ==
    LET rec == store[id]
        fr(pc, calls) == Frame("issue_credential", pc, rec, NoProposal,
                               rec.credential_definition_id, NoOffer,
                               retries, 1, calls, 0)
    IN /\ p \notin DOMAIN running
       /\ IF ~IssueCredentialStateOk(rec)
          THEN /\ last' = Log("issue_credential", id, "WrongState", {}, 0)
               /\ UNCHANGED running
          ELSE IF CredentialCreated(rec)
          THEN Suspend(p, fr("save", {})) /\ UNCHANGED last
          ELSE IF rec.credential_offer = NoOffer
          THEN /\ last' = Log("issue_credential", id, "AttributeError", {}, 0)
               /\ UNCHANGED running
          ELSE /\ Suspend(p, fr(IF Revocable(rec.credential_definition_id)
                                THEN "registry" ELSE "create", {"ledger"}))
               /\ UNCHANGED last
       /\ UNCHANGED <<store, nextId, nextThread, cacheOn, preserve,
                      offerCache, requestCache, nonceCtr, regs, pending, task>>

\* The active registry is noted on the record; when there is none, new ones
\* are asked for unless one is posted, and the call sleeps or raises.
issue_credential_registry(p) ==
    /\ At(p, "issue_credential", "registry")
    /\ LET f == running[p]
           reg == ActiveRegId(f.cd)
           notes == NoRegistryNotes(f.cd)
       IN IF reg # NoId
          THEN /\ Suspend(p, [f EXCEPT !.pc = "create",
                                       !.rec = WithRevRegId(f.rec, reg),
                                       !.calls = @ \cup {"registry"}])
               /\ UNCHANGED <<pending, last>>
          ELSE /\ Notify(notes)
               /\ IF RetryOnNoRegistry(f)
                  THEN /\ Suspend(p, [f EXCEPT !.pc = "sleep",
                                               !.calls = @ \cup {"registry"},
                                               !.notes = @ + notes])
                       /\ UNCHANGED last
                  ELSE /\ last' = LogOfPass("issue_credential",
                                            f.rec.credential_exchange_id,
                                            "NoActiveRevocationRegistry",
                                            f.calls \cup {"registry"},
                                            f.notes + notes, f.pass)
                       /\ Return(p)
    /\ UNCHANGED <<store, nextId, nextThread, cacheOn, preserve, offerCache,
                   requestCache, nonceCtr, regs, task>>

\* issuer.create_credential: the next slot of the registry, or the
\* registry-full error when a duelling call took the last one.
issue_credential_create(p) ==
    /\ At(p, "issue_credential", "create")
    /\ LET f == running[p]
           reg == f.rec.revoc_reg_id
           called == [f EXCEPT !.calls = @ \cup {"issuer"}]
       IN IF ~Revocable(f.cd)
          THEN /\ Suspend(p, [called EXCEPT !.pc = "save"])
               /\ UNCHANGED regs
          ELSE IF regs[reg].count >= regs[reg].max_cred_num
          THEN /\ Suspend(p, [called EXCEPT !.pc = "full_error"])
               /\ UNCHANGED regs
          ELSE LET given == [f.rec EXCEPT !.revocation_id = regs[reg].count + 1]
               IN /\ regs' = [regs EXCEPT ![reg].count = @ + 1]
                  /\ Suspend(p, [called EXCEPT
                                    !.rec = given,
                                    !.pc = IF TookLastSlot(given)
                                           THEN "mark_full" ELSE "save"])
    /\ store' = KeptInMemory(running'[p].rec)
    /\ UNCHANGED <<nextId, nextThread, cacheOn, preserve, offerCache,
                   requestCache, nonceCtr, pending, task, last>>

\* The registry is now full: it is marked FULL and the next one asked for.
issue_credential_mark_full(p) ==
    /\ At(p, "issue_credential", "mark_full")
    /\ regs' = SetFull(running[p].rec.revoc_reg_id)
    /\ Notify(1)
    /\ Suspend(p, [running[p] EXCEPT !.pc = "save", !.notes = @ + 1])
    /\ UNCHANGED <<store, nextId, nextThread, cacheOn, preserve, offerCache,
                   requestCache, nonceCtr, task, last>>

\* except IndyIssuerRevocationRegistryFullError: the registry is marked FULL,
\* and the call sleeps or raises.
issue_credential_full_error(p) ==
    /\ At(p, "issue_credential", "full_error")
    /\ LET f == running[p]
       IN /\ regs' = SetFull(f.rec.revoc_reg_id)
          /\ Notify(FullErrorNotes(f.rec))
          /\ IF RetryOnFull(f)
             THEN /\ Suspend(p, [f EXCEPT !.pc = "sleep",
                                          !.notes = @ + FullErrorNotes(f.rec)])
                  /\ UNCHANGED last
             ELSE /\ last' = LogOfPass("issue_credential",
                                       f.rec.credential_exchange_id,
                                       "RevocationRegistryFull", f.calls,
                                       f.notes + FullErrorNotes(f.rec), f.pass)
                  /\ Return(p)
    /\ UNCHANGED <<store, nextId, nextThread, cacheOn, preserve, offerCache,
                   requestCache, nonceCtr, task>>

\* A recursive call that is given the retries of its caller.
RetriesKept(f) == f.retries

\* retries=retries - 1, in the recursive call.
RetriesAfterSleep(f) == f.retries - 1

\* The sleep ends: the recursive call, with one retry less, comes to the
\* registry again.
issue_credential_wake(p) ==
    /\ At(p, "issue_credential", "sleep")
    /\ Suspend(p, [running[p] EXCEPT !.pc = "registry",
                                     !.retries = RetriesAfterSleep(running[p]),
                                     !.pass = @ + 1])
    /\ UNCHANGED <<store, nextId, nextThread, cacheOn, preserve, offerCache,
                   requestCache, nonceCtr, regs, pending, task, last>>

\* The record, with the credential and state ISSUED, is saved; the call
\* returns.
issue_credential_save(p) ==
    /\ At(p, "issue_credential", "save")
    /\ LET f == running[p]
       IN /\ Save(IF CredentialCreated(f.rec)
                  THEN [f.rec EXCEPT !.state = STATE_ISSUED]
                  ELSE IssuedRecord(f.rec, f.rec.revocation_id))
          /\ last' = LogOfPass("issue_credential",
                               f.rec.credential_exchange_id, "ok",
                               f.calls \cup {"storage"}, f.notes, f.pass)
    /\ Return(p)
    /\ UNCHANGED <<nextThread, cacheOn, preserve, offerCache, requestCache,
                   nonceCtr, regs, pending, task>>

(* --------------------------- race specification ----------------------- *)

\* The offer the issuer generated for the exchange with this id: with a
\* cache, the one offer generated for the cred-def.
RaceOffer(i) ==
    [schema_id |-> "s2", cred_def_id |-> "cd2",
     nonce |-> IF cacheOn THEN 1 ELSE i]

\* An exchange that prepare_send started under the revocable cred-def and
\* for which the peer's request has been received.
RaceRecord(i) ==
    [OfferedRecord(NewRecord("c1", i, INITIATOR_SELF, ROLE_ISSUER, None,
                             Proposal2, ~preserve),
                   Proposal2, RaceOffer(i))
       EXCEPT !.credential_exchange_id = i,
              !.credential_request = Request1,
              !.state = STATE_REQUEST_RECEIVED]

\* Two exchanges await their credential; the one registry of the cred-def,
\* asked for by an earlier call that found none, is active and has one slot
\* left, a duelling instance having taken the others. Records are preserved.
InitRace ==
    /\ cacheOn \in BOOLEAN
    /\ preserve = TRUE
    /\ store = [i \in 1..2 |-> RaceRecord(i)]
    /\ nextId = 2
    /\ nextThread = 2
    /\ offerCache = [cd \in CredDefIds |->
                        IF cacheOn /\ cd = "cd2" THEN RaceOffer(1) ELSE NoOffer]
    /\ requestCache = <<>>
    /\ nonceCtr = IF cacheOn THEN 1 ELSE 2
    /\ regs = <<[cred_def_id |-> "cd2", state |-> REG_ACTIVE,
                 max_cred_num |-> RegSize, count |-> RegSize - 1]>>
    /\ pending = 1
    /\ task = NoTask
    /\ running = <<>>
    /\ wire = NoWire
    /\ last = Log("duelling_create_credential", NoId, "ok", {"issuer"}, 0)

\* Credentials issued on the two exchanges by calls that interleave, with
\* the registry subsystem posting and activating the next registry and the
\* duelling instance taking slots.
NextRace ==
    \/ \E p \in Procs, i \in DOMAIN store, r \in 0..MaxRetries :
          issue_credential_begin(p, i, r) /\ UNCHANGED wire
    \/ \E p \in Procs : issue_credential_registry(p) /\ UNCHANGED wire
    \/ \E p \in Procs : issue_credential_create(p) /\ UNCHANGED wire
    \/ \E p \in Procs : issue_credential_mark_full(p) /\ UNCHANGED wire
    \/ \E p \in Procs : issue_credential_full_error(p) /\ UNCHANGED wire
    \/ \E p \in Procs : issue_credential_wake(p) /\ UNCHANGED wire
    \/ \E p \in Procs : issue_credential_save(p) /\ UNCHANGED wire
    \/ \E cd \in {c \in CredDefIds : Revocable(c)} : registry_post(cd)
          /\ UNCHANGED wire
    \/ \E i \in RegIds : registry_activate(i) /\ UNCHANGED wire
    \/ \E i \in RegIds : duelling_create_credential(i) /\ UNCHANGED wire

SpecRace == InitRace /\ [][NextRace]_vars

\* The calls in flight and the stored records that hold this slot of this
\* registry.
SlotHolders(reg, slot) ==
    {<<"call", q>> : q \in {q \in DOMAIN running :
                              /\ running[q].rec.revoc_reg_id = reg
                              /\ running[q].rec.revocation_id = slot}}
    \cup {<<"record", i>> : i \in {i \in DOMAIN store :
                                     /\ store[i].revoc_reg_id = reg
                                     /\ store[i].revocation_id = slot}}

\* C14: a record persisted as ISSUED with the last slot of its registry is
\* there only when the registry is marked FULL: the registry is FULL when the
\* flow returns, and was marked so before the record was saved.
C14_FullBeforeIssuedWithLastSlot ==
    \A i \in DOMAIN store :
        (/\ store[i].state = STATE_ISSUED
         /\ store[i].revoc_reg_id \in RegIds
         /\ store[i].revocation_id = RegOf(store[i]).max_cred_num)
        => RegOf(store[i]).state = REG_FULL

\* issue_credential has returned having issued the last slot of its
\* registry and asked for the next registry.
C14_Witness ==
    /\ last.op = "issue_credential"
    /\ last.err = "ok"
    /\ last.notes = 1
    /\ store[last.id].state = STATE_ISSUED
    /\ store[last.id].revocation_id = RegSize
    /\ regs[store[last.id].revoc_reg_id].state = REG_FULL

\* The call of task p takes a step.
Moved(p) == p \notin DOMAIN running' \/ running'[p] # running[p]

\* Notifications the call of task p has emitted, read after its step.
NotesAfter(p) ==
    IF p \in DOMAIN running' THEN running'[p].notes ELSE last'.notes

NextEnd ==
    \/ \E c \in Conns, a \in AutoRemoveArgs :
          create_proposal(c, Proposal1, AutoRemove(a)) /\ InBounds'
          /\ UNCHANGED wire
    \/ \E c \in Conns, t \in Threads :
          receive_proposal(c, t, Proposal1) /\ InBounds' /\ UNCHANGED wire
    \/ \E i \in DOMAIN store : create_offer(store[i], NoProposal) /\ InBounds'
          /\ UNCHANGED wire
    \/ \E c \in Conns, t \in Threads :
          receive_offer(c, t, {"name", "date"}, <<Offer1>>) /\ InBounds'
          /\ UNCHANGED wire
    \/ \E c \in Conns, t \in Threads : receive_request(c, t, <<Request1>>)
          /\ UNCHANGED wire
    \/ \E c \in Conns, t \in Threads :
          receive_credential(c, t, <<Credential1>>) /\ UNCHANGED wire
    \/ \E i \in DOMAIN store, s \in StorageAnswers, r \in BOOLEAN :
          send_credential_ack(store[i], s, r) /\ UNCHANGED wire
    \/ \E c \in Conns, t \in Threads : receive_credential_ack(c, t)
          /\ UNCHANGED wire
    \/ \E c \in Conns, t \in Threads, d \in Descriptions :
          receive_problem_report(c, t, d) /\ UNCHANGED wire

SpecEnd == Init /\ [][NextEnd]_vars

\* C18: after receive_problem_report on an existing record, the record is
\* still stored, whatever its auto_remove, with state null and an error
\* message of a code, issuance-abandoned when the report has none, and a
\* text, the code when the report has none.
C18_ProblemReportAbandonsAndKeeps ==
    [][(last'.op = "receive_problem_report" /\ last'.err = "ok")
       => /\ last'.id \in DOMAIN store
          /\ last'.id \in DOMAIN store'
          /\ store'[last'.id].state = None
          /\ store'[last'.id].error_msg.code
                \in {"abandoned-consent", ISSUANCE_ABANDONED}
          /\ store'[last'.id].error_msg.en
                \in {"user declined", store'[last'.id].error_msg.code}
          /\ DOMAIN store' = DOMAIN store]_vars

\* A problem report without a code has been received for a record that is
\* removed automatically on completion.
C18_Witness ==
    /\ last.op = "receive_problem_report"
    /\ last.err = "ok"
    /\ store[last.id].auto_remove
    /\ store[last.id].state = None
    /\ store[last.id].error_msg.code = ISSUANCE_ABANDONED

\* C19: once a record is abandoned (state null, error message set), no flow
\* persists another state for it.
C19_AbandonedIsSink ==
    [][\A i \in DOMAIN store \cap DOMAIN store' :
          (store[i].state = None /\ store[i].error_msg # NoErrorMsg)
          => store'[i].state = None]_vars

AckFlows == {"send_credential_ack", "receive_credential_ack"}

\* Records leave the store only by the ack flow that ran on them.
DeletedOnlyOnAck ==
    \A i \in DOMAIN store \ DOMAIN store' :
        last'.op \in AckFlows /\ last'.id = i

\* C20 as stated: after send_ack or receive_ack completes, a record with
\* auto_remove is absent from the store and a record without it is stored as
\* ACKED; records are deleted by nothing else.
C20_AckRemovesOrKeepsAcked ==
    [][/\ \A i \in DOMAIN store :
             (last'.op \in AckFlows /\ last'.err = "ok" /\ last'.id = i)
             => IF store[i].auto_remove
                THEN i \notin DOMAIN store'
                ELSE i \in DOMAIN store' /\ store'[i].state = STATE_ACKED
       /\ DeletedOnlyOnAck]_vars

\* C20, amended: the same when the storage raised no error under the ack; when
\* it did, which send_ack logs and survives, the record stays in the store,
\* as it was or as ACKED; records are deleted by nothing else.
C20_AckRemovesOrKeepsAckedUnlessStorageFails ==
    [][/\ \A i \in DOMAIN store :
             (last'.op \in AckFlows /\ last'.err = "ok" /\ last'.id = i)
             => IF "logger" \in last'.calls
                THEN /\ i \in DOMAIN store'
                     /\ \/ store'[i] = store[i]
                        \/ store'[i] = [store[i] EXCEPT !.state = STATE_ACKED]
                ELSE IF store[i].auto_remove
                THEN i \notin DOMAIN store'
                ELSE i \in DOMAIN store' /\ store'[i].state = STATE_ACKED
       /\ DeletedOnlyOnAck]_vars

\* send_credential_ack has returned, the storage having raised no error, and
\* the record, removed automatically, is gone from the store.
C20_Witness ==
    /\ last.op = "send_credential_ack"
    /\ last.err = "ok"
    /\ "logger" \notin last.calls
    /\ last.id \notin DOMAIN store
    /\ ByConnectionAndThread("c1", 1) = {}

\* C21: every send_credential_ack returns normally; under a profile with a
\* responder the ack is handed to it by the flow's one send_reply, whether
\* the save or the delete of the record failed or not; under a profile
\* without one, nothing is sent.
C21_AckSentDespiteStorageError ==
    [][\A i \in DOMAIN store, s \in StorageAnswers, r \in BOOLEAN :
          send_credential_ack(store[i], s, r)
          => /\ last'.op = "send_credential_ack"
             /\ last'.err = "ok"
             /\ ("responder" \in last'.calls) <=> r
             /\ ("logger" \in last'.calls) <=> (s # "ok")]_vars

\* send_credential_ack has sent the ack although the delete of the record,
\* one removed automatically, failed: the record is still stored, ACKED.
C21_Witness ==
    /\ last.op = "send_credential_ack"
    /\ last.err = "ok"
    /\ {"logger", "responder"} \subseteq last.calls
    /\ last.id \in DOMAIN store
    /\ store[last.id].auto_remove
    /\ store[last.id].state = STATE_ACKED

(* ---------------------------- attachment count ------------------------ *)

\* C22: a credential-offer, credential-request or credential-issue message
\* whose attachment count is not exactly 1 is rejected with a failure and
\* creates or modifies no exchange record.
C22_BadAttachmentCountRejected ==
    [][\A c \in Conns, t \in Threads :
          /\ \A o \in Attachments({Offer1}) :
                (Len(o) # 1 /\ receive_offer(c, t, {"name", "date"}, o))
                => last'.err # "ok" /\ UNCHANGED <<store, nextId>>
          /\ \A r \in Attachments({Request1}) :
                (Len(r) # 1 /\ receive_request(c, t, r))
                => last'.err # "ok" /\ UNCHANGED <<store, nextId>>
          /\ \A a \in Attachments({Credential1}) :
                (Len(a) # 1 /\ receive_credential(c, t, a))
                => last'.err # "ok" /\ UNCHANGED <<store, nextId>>]_vars

(* ------------------------ happy path of two peers --------------------- *)

\* The two ends of the one connection between a holder and an issuer: each
\* peer knows the connection under its own id. The records of both peers are
\* kept in the one store, told apart by the connection id.
HolderConn == "c1"
IssuerConn == "c2"

\* A protocol message: its type, its thread id and its payloads.
Message(type, thid, proposal, payload) ==
    [type |-> type, thid |-> thid, proposal |-> proposal, payload |-> payload]

\* The transport takes a message for a peer, and hands over the oldest one.
Send(to, m) == wire' = [wire EXCEPT ![to] = Append(@, m)]
Arrives(to, type) == wire[to] # <<>> /\ Head(wire[to]).type = type
Delivered(to) == wire' = [wire EXCEPT ![to] = Tail(@)]

\* The records of a peer on a thread, and those in a given state.
PeerRecords(conn, thid) == ByConnectionAndThread(conn, thid)
PeerIn(conn, thid, state) ==
    \E i \in PeerRecords(conn, thid) : store[i].state = state

\* The holder's controller proposes, and the proposal goes to the issuer.
holder_proposes(a) ==
    /\ nextThread < MaxExchanges
    /\ create_proposal(HolderConn, Proposal1, AutoRemove(a))
    /\ Send("toIssuer", Message("propose-credential", nextThread + 1,
                                Proposal1, NoOffer))

\* The issuer's handler of propose-credential.
issuer_receives_proposal ==
    /\ Arrives("toIssuer", "propose-credential")
    /\ LET m == Head(wire.toIssuer)
       IN receive_proposal(IssuerConn, m.thid, m.proposal)
    /\ Delivered("toIssuer")

\* The issuer's controller answers a received proposal with an offer.
issuer_offers(i) ==
    /\ store[i].connection_id = IssuerConn
    /\ store[i].state = STATE_PROPOSAL_RECEIVED
    /\ create_offer(store[i], NoProposal)
    /\ IF last'.err = "ok"
       THEN Send("toHolder", Message("offer-credential", store'[i].thread_id,
                                     store'[i].credential_proposal_dict,
                                     store'[i].credential_offer))
       ELSE UNCHANGED wire

\* The holder's handler of offer-credential.
holder_receives_offer ==
    /\ Arrives("toHolder", "offer-credential")
    /\ LET m == Head(wire.toHolder)
       IN receive_offer(HolderConn, m.thid, m.proposal.attrs, <<m.payload>>)
    /\ Delivered("toHolder")

\* The holder's controller answers a received offer with a request.
holder_requests(i, did) ==
    /\ store[i].connection_id = HolderConn
    /\ store[i].state = STATE_OFFER_RECEIVED
    /\ create_request(store[i], did)
    /\ IF last'.err = "ok"
       THEN Send("toIssuer", Message("request-credential", store'[i].thread_id,
                                     NoProposal, store'[i].credential_request))
       ELSE UNCHANGED wire

\* The issuer's handler of request-credential.
issuer_receives_request ==
    /\ Arrives("toIssuer", "request-credential")
    /\ LET m == Head(wire.toIssuer)
       IN receive_request(IssuerConn, m.thid, <<m.payload>>)
    /\ Delivered("toIssuer")

\* The issuer's controller answers a received request with the credential.
issuer_issues(i, retries) ==
    /\ store[i].connection_id = IssuerConn
    /\ store[i].state = STATE_REQUEST_RECEIVED
    /\ issue_credential(i, retries)
    /\ IF last'.err = "ok"
       THEN Send("toHolder", Message("issue-credential", store'[i].thread_id,
                                     NoProposal, store'[i].credential))
       ELSE UNCHANGED wire

\* The holder's handler of issue-credential.
holder_receives_credential ==
    /\ Arrives("toHolder", "issue-credential")
    /\ LET m == Head(wire.toHolder)
       IN receive_credential(HolderConn, m.thid, <<m.payload>>)
    /\ Delivered("toHolder")

\* The holder's controller stores a received credential in the wallet ...
holder_stores(i) ==
    /\ store[i].connection_id = HolderConn
    /\ store[i].state = STATE_CREDENTIAL_RECEIVED
    /\ store[i].credential_id = None
    /\ store_credential(store[i], None, TRUE)
    /\ UNCHANGED wire

\* ... and acks it: the engine hands the ack to the responder.
holder_acks(i) ==
    /\ store[i].connection_id = HolderConn
    /\ store[i].state = STATE_CREDENTIAL_RECEIVED
    /\ store[i].credential_id # None
    /\ send_credential_ack(store[i], "ok", TRUE)
    /\ IF "responder" \in last'.calls
       THEN Send("toIssuer", Message("ack", store[i].thread_id,
                                     NoProposal, NoOffer))
       ELSE UNCHANGED wire

\* The issuer's handler of ack.
issuer_receives_ack ==
    /\ Arrives("toIssuer", "ack")
    /\ receive_credential_ack(IssuerConn, Head(wire.toIssuer).thid)
    /\ Delivered("toIssuer")

NextHappy ==
    \/ \E a \in AutoRemoveArgs : holder_proposes(a)
    \/ issuer_receives_proposal
    \/ \E i \in DOMAIN store : issuer_offers(i)
    \/ holder_receives_offer
    \/ \E i \in DOMAIN store, d \in HolderDids : holder_requests(i, d)
    \/ issuer_receives_request
    \/ \E i \in DOMAIN store, r \in 0..MaxRetries : issuer_issues(i, r)
    \/ holder_receives_credential
    \/ \E i \in DOMAIN store : holder_stores(i)
    \/ \E i \in DOMAIN store : holder_acks(i)
    \/ issuer_receives_ack

\* The scheduler runs every task that is ready, and the transport delivers.
SpecHappy == Init /\ [][NextHappy]_vars /\ WF_vars(NextHappy)

\* The states a record of each peer passes before the ack, in order.
HolderOrder == <<STATE_PROPOSAL_SENT, STATE_OFFER_RECEIVED,
                 STATE_REQUEST_SENT, STATE_CREDENTIAL_RECEIVED>>
IssuerOrder == <<STATE_PROPOSAL_RECEIVED, STATE_OFFER_SENT,
                 STATE_REQUEST_RECEIVED, STATE_ISSUED>>
PeerOrder(conn) == IF conn = HolderConn THEN HolderOrder ELSE IssuerOrder

\* The exchange is over for the peer: its record is gone, or is kept, not
\* being one removed automatically, as ACKED.
Ended(conn, thid) ==
    \A i \in PeerRecords(conn, thid) :
        store[i].state = STATE_ACKED /\ ~store[i].auto_remove

\* C23: once the holder has proposed on a thread, the issuer's record of the
\* thread comes to be, created as PROPOSAL_RECEIVED; the record of each peer goes from
\* each state of its order to the next, and from the last to ACKED, after
\* which it is gone if it is removed automatically and stays ACKED if not;
\* and no record changes state but along the transition table.
C23_HappyPathCompletes ==
    /\ \A t \in 1..MaxExchanges :
          /\ PeerIn(HolderConn, t, STATE_PROPOSAL_SENT)
                ~> (PeerRecords(IssuerConn, t) # {})
          /\ \A conn \in {HolderConn, IssuerConn} :
                /\ \A k \in 1..3 :
                      PeerIn(conn, t, PeerOrder(conn)[k])
                         ~> PeerIn(conn, t, PeerOrder(conn)[k + 1])
                /\ PeerIn(conn, t, PeerOrder(conn)[4]) ~> []Ended(conn, t)
    /\ [][\A i \in DOMAIN store' :
             IF i \in DOMAIN store
             THEN \/ store'[i].state = store[i].state
                  \/ <<store[i].state, store'[i].state>> \in LegalEdges
             ELSE store'[i].state
                     \in {STATE_PROPOSAL_SENT, STATE_PROPOSAL_RECEIVED}]_vars

\* The issuer has received the ack of the first exchange, and the records of
\* both peers, removed automatically, are gone from their stores.
C23_Witness ==
    /\ last.op = "receive_credential_ack"
    /\ last.err = "ok"
    /\ nextThread >= 1
    /\ wire = NoWire
    /\ PeerRecords(HolderConn, 1) = {}
    /\ PeerRecords(IssuerConn, 1) = {}

(* ----------------------- create_request, by steps --------------------- *)

\* The frame of a create_request call in flight.
RequestFrame(pc, rec, holder_did, calls) ==
    [flow |-> "create_request", pc |-> pc, rec |-> rec,
     holder_did |-> holder_did, cd |-> rec.credential_definition_id,
     retries |-> 0, pass |-> 1, calls |-> calls, notes |-> 0]

\* create_request up to the request: the state check on the record the
\* caller has loaded, and the check for a request already created.
create_request_begin(p, id, holder_did) ==
    LET rec == store[id]
    IN /\ p \notin DOMAIN running
       /\ IF ~CreateRequestStateOk(rec)
          THEN /\ last' = Log("create_request", id, "WrongState", {}, 0)
               /\ UNCHANGED running
          ELSE /\ Suspend(p, RequestFrame(IF rec.credential_request # NoRequest
                                          THEN "save" ELSE "create",
                                          rec, holder_did, {}))
               /\ UNCHANGED last
       /\ UNCHANGED <<store, nextId, nextThread, cacheOn, preserve,
                      offerCache, requestCache, nonceCtr, regs, pending, task>>

\* The request comes from the cache or from the holder, inside the lease on
\* its cache key, and is set on the record in memory.
create_request_create(p) ==
    /\ At(p, "create_request", "create")
    /\ LET f == running[p]
           key == RequestCacheKey(f.rec, f.holder_did)
           hit == cacheOn /\ key \in DOMAIN requestCache
           result == IF hit THEN requestCache[key]
                     ELSE HolderCreateRequest(f.rec.credential_offer, f.cd,
                                              f.holder_did)
       IN /\ Suspend(p, [f EXCEPT
                            !.pc = "save",
                            !.rec = [f.rec EXCEPT
                                       !.credential_request = result.request,
                                       !.credential_request_metadata =
                                           result.metadata],
                            !.calls = @ \cup (IF cacheOn THEN {"cache"} ELSE {})
                                        \cup (IF hit THEN {}
                                              ELSE {"ledger", "holder"})])
          /\ requestCache' =
                 IF cacheOn /\ ~hit
                 THEN [k \in DOMAIN requestCache \cup {key} |->
                          IF k = key THEN result ELSE requestCache[k]]
                 ELSE requestCache
    /\ store' = KeptInMemory(running'[p].rec)
    /\ UNCHANGED <<nextId, nextThread, cacheOn, preserve, offerCache,
                   nonceCtr, regs, pending, task, last>>

\* The record is saved as REQUEST_SENT; the call returns.
create_request_save(p) ==
    /\ At(p, "create_request", "save")
    /\ LET f == running[p]
       IN /\ Save([f.rec EXCEPT !.state = STATE_REQUEST_SENT])
          /\ last' = Log("create_request", f.rec.credential_exchange_id,
                         "ok", f.calls \cup {"storage"}, 0)
    /\ Return(p)
    /\ UNCHANGED <<nextThread, cacheOn, preserve, offerCache, requestCache,
                   nonceCtr, regs, pending, task>>

(* ------------------------------ cancellation -------------------------- *)

\* The task of a call in flight is cancelled where it is suspended: the call
\* ends there, and what it holds in memory is dropped.
cancel(p) ==
    /\ p \in DOMAIN running
    /\ last' = LogOfPass(running[p].flow,
                         running[p].rec.credential_exchange_id, "Cancelled",
                         running[p].calls, running[p].notes, running[p].pass)
    /\ Return(p)
    /\ UNCHANGED <<store, nextId, nextThread, cacheOn, preserve, offerCache,
                   requestCache, nonceCtr, regs, pending, task>>

(* -------------------------- in-flight specification ------------------- *)

\* One exchange record on which create_request and issue_credential run by
\* steps, while the peer's messages, a problem report among them, arrive for
\* the same record, and the task of the call may be cancelled.
\* The one task that runs the calls taken by steps here.
FlightProcs == {1}

NextFlight ==
    \/ \E c \in Conns, p \in {Proposal1, Proposal2} :
          prepare_send(c, p, "unset") /\ InBounds' /\ UNCHANGED wire
    \/ \E c \in Conns, t \in Threads :
          receive_offer(c, t, {"name", "date"}, <<Offer1>>) /\ InBounds'
          /\ UNCHANGED wire
    \/ \E c \in Conns, t \in Threads :
          receive_request(c, t, <<Request1>>) /\ UNCHANGED wire
    \/ \E c \in Conns, t \in Threads :
          receive_problem_report(c, t, Description1) /\ UNCHANGED wire
    \/ \E p \in FlightProcs, i \in DOMAIN store, d \in HolderDids :
          create_request_begin(p, i, d) /\ UNCHANGED wire
    \/ \E p \in FlightProcs : create_request_create(p) /\ UNCHANGED wire
    \/ \E p \in FlightProcs : create_request_save(p) /\ UNCHANGED wire
    \/ \E p \in FlightProcs, i \in DOMAIN store, r \in 0..MaxRetries :
          issue_credential_begin(p, i, r) /\ UNCHANGED wire
    \/ \E p \in FlightProcs : issue_credential_registry(p) /\ UNCHANGED wire
    \/ \E p \in FlightProcs : issue_credential_create(p) /\ UNCHANGED wire
    \/ \E p \in FlightProcs : issue_credential_mark_full(p) /\ UNCHANGED wire
    \/ \E p \in FlightProcs : issue_credential_full_error(p) /\ UNCHANGED wire
    \/ \E p \in FlightProcs : issue_credential_wake(p) /\ UNCHANGED wire
    \/ \E p \in FlightProcs : issue_credential_save(p) /\ UNCHANGED wire
    \/ \E p \in FlightProcs : cancel(p) /\ UNCHANGED wire
    \/ \E cd \in {c \in CredDefIds : Revocable(c)} :
          registry_post(cd) /\ UNCHANGED wire
    \/ \E i \in RegIds : registry_activate(i) /\ UNCHANGED wire

SpecFlight == Init /\ [][NextFlight]_vars

\* C24: a call in flight saves its record only when the stored record is as
\* the call loaded it, in the fields a problem report writes: no save
\* overwrites a state or an error message persisted by another flow since.
C24_NoLostUpdate ==
    [][\A p \in DOMAIN running :
          (/\ running[p].pc = "save"
           /\ p \notin DOMAIN running'
           /\ last'.err = "ok")
          => LET id == running[p].rec.credential_exchange_id
             IN /\ store[id].state = running[p].rec.state
                /\ store[id].error_msg = running[p].rec.error_msg]_vars

\* C25: a call in flight changes the store only by its final save: the call
\* beginning, every step it takes before that save, and its cancellation
\* leave the store as it was, so that a flow cancelled at any suspension
\* point leaves the persisted record as it was before the flow started.
C25_CancelledFlowLeavesRecord ==
    [][/\ \A p \in DOMAIN running' \ DOMAIN running : store' = store
       /\ \A p \in DOMAIN running :
             /\ (Moved(p) /\ running[p].pc # "save") => store' = store
             /\ cancel(p) => store' = store]_vars

\* An issue_credential was cancelled after the issuer created the credential
\* and before the save: the registry's counter has advanced, and the stored
\* record still awaits its credential.
C25_Witness ==
    /\ last.op = "issue_credential"
    /\ last.err = "Cancelled"
    /\ "issuer" \in last.calls
    /\ last.id \in DOMAIN store
    /\ store[last.id].state = STATE_REQUEST_RECEIVED
    /\ store[last.id].credential = NoCredential
    /\ store[last.id].revocation_id = NoId
    /\ \E r \in RegIds : regs[r].count > 0

(* ------------------------------- thread id ---------------------------- *)

\* C26: every record in the store has a thread id, the record that
\* prepare_send builds without one included: create_offer gives it the
\* thread id of the offer message before it saves.
C26_SavedRecordHasThreadId ==
    \A i \in DOMAIN store : store[i].thread_id # NoId

\* prepare_send has saved the record it built, with the offer message's
\* thread id.
C26_Witness ==
    /\ last.op = "create_offer"
    /\ last.err = "ok"
    /\ store[last.id].initiator = INITIATOR_SELF
    /\ store[last.id].role = ROLE_ISSUER
    /\ store[last.id].state = STATE_OFFER_SENT
    /\ store[last.id].thread_id = nextThread
    /\ nextThread > 0

(* ------------------------------- no cache ----------------------------- *)

\* C27: under a profile without a cache, every create_offer that succeeds
\* has had the issuer generate one new offer, and every create_request that
\* succeeds on a record without a request has had the holder generate the
\* request; neither has called a cache or raised for want of one.
C27_NoCacheGeneratesEachTime ==
    [][~cacheOn =>
          /\ (last'.op = "create_offer" /\ last'.err = "ok")
                => /\ "issuer" \in last'.calls
                   /\ "cache" \notin last'.calls
                   /\ nonceCtr' = nonceCtr + 1
                   /\ store'[last'.id].credential_offer.nonce = nonceCtr'
          /\ \A i \in DOMAIN store :
                (/\ last'.op = "create_request"
                 /\ last'.id = i
                 /\ last'.err = "ok"
                 /\ store[i].credential_request = NoRequest)
                => /\ "holder" \in last'.calls
                   /\ "cache" \notin last'.calls
                   /\ store'[i].credential_request # NoRequest
          /\ last'.op \in {"create_offer", "create_request"}
                => last'.err \in {"ok", "WrongState", "NoUsableCredDef",
                                  "PreviewMismatch"}]_vars

\* Without a cache, a second offer for the same cred-def has been generated
\* by the issuer, with a nonce of its own.
C27_Witness ==
    /\ ~cacheOn
    /\ last.op = "create_offer"
    /\ last.err = "ok"
    /\ "issuer" \in last.calls
    /\ nonceCtr = 2
    /\ store[last.id].credential_offer.nonce = 2

(* -------------------------- rotation specification -------------------- *)

\* Two exchanges await their credential under the revocable cred-def, and
\* no registry of the cred-def has ever been asked for.
InitFirst ==
    /\ cacheOn \in BOOLEAN
    /\ preserve = TRUE
    /\ store = [i \in 1..2 |-> RaceRecord(i)]
    /\ nextId = 2
    /\ nextThread = 2
    /\ offerCache = [cd \in CredDefIds |->
                        IF cacheOn /\ cd = "cd2" THEN RaceOffer(1) ELSE NoOffer]
    /\ requestCache = <<>>
    /\ nonceCtr = IF cacheOn THEN 1 ELSE 2
    /\ regs = <<>>
    /\ pending = 0
    /\ task = NoTask
    /\ running = <<>>
    /\ wire = NoWire
    /\ last = Log("receive_request", 2, "ok", {"storage"}, 0)

\* The first credential ever of the cred-def, or a race for the last slot of
\* its one registry.
InitRotation == InitFirst \/ InitRace

\* The caller of task p issues the credential of the exchange it serves,
\* which awaits it.
rotation_begin(p, retries) ==
    /\ p \in DOMAIN store
    /\ store[p].state = STATE_REQUEST_RECEIVED
    /\ issue_credential_begin(p, p, retries)

\* The registry subsystem is quicker than the sleep of a call: when the sleep
\* ends, a registry of the cred-def is active.
wake_after_rotation(p) ==
    /\ p \in DOMAIN running
    /\ ActiveRegId(running[p].cd) # NoId
    /\ issue_credential_wake(p)

\* The steps of the call of task p, and those of the registry subsystem.
RotationStep(p) ==
    /\ \/ issue_credential_registry(p)
       \/ issue_credential_create(p)
       \/ issue_credential_mark_full(p)
       \/ issue_credential_full_error(p)
       \/ wake_after_rotation(p)
       \/ issue_credential_save(p)
    /\ UNCHANGED wire

RegistrySubsystem ==
    /\ \/ \E cd \in {c \in CredDefIds : Revocable(c)} : registry_post(cd)
       \/ \E i \in RegIds : registry_activate(i)
    /\ UNCHANGED wire

NextRotation ==
    \/ \E p \in Procs, r \in 0..MaxRetries :
          rotation_begin(p, r) /\ UNCHANGED wire
    \/ \E p \in Procs : issue_credential_registry(p) /\ UNCHANGED wire
    \/ \E p \in Procs : issue_credential_create(p) /\ UNCHANGED wire
    \/ \E p \in Procs : issue_credential_mark_full(p) /\ UNCHANGED wire
    \/ \E p \in Procs : issue_credential_full_error(p) /\ UNCHANGED wire
    \/ \E p \in Procs : wake_after_rotation(p) /\ UNCHANGED wire
    \/ \E p \in Procs : issue_credential_save(p) /\ UNCHANGED wire
    \/ \E cd \in {c \in CredDefIds : Revocable(c)} :
          registry_post(cd) /\ UNCHANGED wire
    \/ \E i \in RegIds : registry_activate(i) /\ UNCHANGED wire

\* The scheduler runs every call that is ready, and the registry subsystem
\* serves the notifications.
SpecRotation ==
    /\ InitRotation
    /\ [][NextRotation]_vars
    /\ \A p \in Procs : WF_vars(RotationStep(p))
    /\ WF_vars(RegistrySubsystem)

\* The retries a call in flight was called with: those it has left and
\* those its earlier passes have spent.
Budget(f) == f.retries + f.pass - 1
CalledWithRetries(p) == Budget(running[p])

RetryStep(p) ==
    /\ \/ issue_credential_registry(p)
       \/ issue_credential_create(p)
       \/ issue_credential_mark_full(p)
       \/ issue_credential_full_error(p)
       \/ issue_credential_wake(p)
       \/ issue_credential_save(p)
    /\ UNCHANGED wire

\* Calls on the two exchanges with any retries, a registry subsystem that
\* may or may not serve, and a duelling instance that takes slots.
NextRetry ==
    \/ \E p \in Procs, r \in 0..MaxRetries :
          rotation_begin(p, r) /\ UNCHANGED wire
    \/ \E p \in Procs : issue_credential_registry(p) /\ UNCHANGED wire
    \/ \E p \in Procs : issue_credential_create(p) /\ UNCHANGED wire
    \/ \E p \in Procs : issue_credential_mark_full(p) /\ UNCHANGED wire
    \/ \E p \in Procs : issue_credential_full_error(p) /\ UNCHANGED wire
    \/ \E p \in Procs : issue_credential_wake(p) /\ UNCHANGED wire
    \/ \E p \in Procs : issue_credential_save(p) /\ UNCHANGED wire
    \/ \E cd \in {c \in CredDefIds : Revocable(c)} :
          registry_post(cd) /\ UNCHANGED wire
    \/ \E i \in RegIds : registry_activate(i) /\ UNCHANGED wire
    \/ \E i \in RegIds : duelling_create_credential(i) /\ UNCHANGED wire

\* The scheduler runs every call that is ready.
SpecRetry ==
    /\ InitRotation
    /\ [][NextRetry]_vars
    /\ \A p \in Procs : WF_vars(RetryStep(p))

\* C29: an issue_credential called with r retries ends, with the record
\* saved as ISSUED or with an error, in its pass r+1 at the latest: every
\* sleep, after a missing registry or after a full one, takes one retry of
\* the same budget and starts the next pass, and a call with none left does
\* not sleep.
C29_TerminatesWithinRetries ==
    /\ \A p \in Procs : (p \in DOMAIN running) ~> (p \notin DOMAIN running)
    /\ [](\A p \in DOMAIN running :
             /\ running[p].retries >= 0
             /\ running[p].pass <= CalledWithRetries(p) + 1
             /\ running[p].pc = "sleep" => running[p].retries > 0)
    /\ [][\A p \in DOMAIN running :
             LET f == running[p]
             IN IF p \in DOMAIN running'
                THEN /\ Budget(running'[p]) = Budget(f)
                     /\ running'[p].pass # f.pass
                           => /\ f.pc = "sleep"
                              /\ running'[p].pass = f.pass + 1
                              /\ running'[p].retries = f.retries - 1
                ELSE /\ last'.op = "issue_credential"
                     /\ last'.pass = f.pass
                     /\ last'.err \in {"ok", "NoActiveRevocationRegistry",
                                        "RevocationRegistryFull"}
                     /\ last'.err = "ok"
                           => store'[last'.id].state = STATE_ISSUED]_vars

\* A call with one retry met a full registry, slept, found no registry
\* active in its second pass and raised: the one retry was spent on the
\* full registry.
C29_Witness ==
    /\ last.op = "issue_credential"
    /\ last.err = "NoActiveRevocationRegistry"
    /\ last.pass = 2
    /\ "issuer" \in last.calls
    /\ store[last.id].state = STATE_REQUEST_RECEIVED

\* Notifications the registry subsystem has still to serve after n more.
PendingAfter(n) == IF pending + n > MaxRegs THEN MaxRegs ELSE pending + n

\* C30: a pass of issue_credential for a revocable cred-def that finds no
\* active registry emits exactly two notifications when no registry of the
\* cred-def is POSTED and none when one is, and in both cases sleeps or
\* raises without having called the issuer's create_credential in that pass
\* and without touching a registry or the stored record.
C30_NoActiveRegistryNotifies ==
    [][\A p \in DOMAIN running :
         LET f == running[p]
             posted == RegsInState(f.cd, REG_POSTED)
             emitted == NotesAfter(p) - f.notes
             calls == IF p \in DOMAIN running' THEN running'[p].calls
                      ELSE last'.calls
         IN (/\ At(p, "issue_credential", "registry")
             /\ Revocable(f.cd)
             /\ ActiveRegId(f.cd) = NoId
             /\ Moved(p))
            => /\ posted = {} => emitted = 2 /\ pending' = PendingAfter(2)
               /\ posted # {} => emitted = 0 /\ pending' = pending
               /\ calls = f.calls \cup {"registry"}
               /\ IF p \in DOMAIN running'
                  THEN /\ running'[p].pc = "sleep"
                       /\ running'[p].pass = f.pass
                  ELSE /\ last'.err = "NoActiveRevocationRegistry"
                       /\ last'.pass = f.pass
               /\ UNCHANGED <<regs, store>>]_vars

\* A call found neither an active nor a posted registry in its first pass
\* and notified twice; in its second pass a posted registry was there, no
\* further notification went out, and the call raised without the issuer
\* having been called.
C30_Witness ==
    /\ last.op = "issue_credential"
    /\ last.err = "NoActiveRevocationRegistry"
    /\ last.pass = 2
    /\ last.notes = 2
    /\ "issuer" \notin last.calls
    /\ RegsInState(store[last.id].credential_definition_id, REG_POSTED) # {}
    /\ ActiveRegId(store[last.id].credential_definition_id) = NoId

(* --------------------------- choice of the cred-def ------------------- *)

\* Proposals with every kind of selector: none, a schema, a cred-def, a
\* cred-def the agent never sent, a schema and a cred-def of another schema.
SelectorInputs ==
    ProposalInputs \cup
    { [schema_id |-> None, cred_def_id |-> None, attrs |-> {"name", "date"}],
      [schema_id |-> "s1", cred_def_id |-> None, attrs |-> {"name", "date"}],
      [schema_id |-> "s2", cred_def_id |-> None, attrs |-> {"name"}],
      [schema_id |-> "s2", cred_def_id |-> "cd1", attrs |-> {"name"}] }

\* Proposals sent and received, and offers made on them or on a counter
\* proposal.
NextMatch ==
    \/ \E c \in Conns, p \in SelectorInputs :
          create_proposal(c, p, AutoRemove("unset")) /\ InBounds'
          /\ UNCHANGED wire
    \/ \E c \in Conns, t \in Threads, p \in SelectorInputs :
          receive_proposal(c, t, p) /\ InBounds' /\ UNCHANGED wire
    \/ \E i \in DOMAIN store, p \in SelectorInputs \cup {NoProposal} :
          create_offer(store[i], p) /\ InBounds' /\ UNCHANGED wire

SpecMatch == Init /\ [][NextMatch]_vars

\* C31: a create_offer that succeeds makes the offer for the cred_def_id the
\* proposal names, when it names one; otherwise for the cred-def whose sent
\* record has the largest epoch among those matching every selector the
\* proposal gives.
C31_CredDefChosen ==
    [][\A i \in DOMAIN store, cp \in SelectorInputs \cup {NoProposal} :
         (create_offer(store[i], cp) /\ last'.err = "ok")
         => LET proposal == IF cp # NoProposal THEN cp
                            ELSE store[i].credential_proposal_dict
                matching ==
                    {r \in SentCredDefs :
                        /\ proposal.schema_id \in {None, r.schema_id}
                        /\ proposal.cred_def_id \in {None, r.cred_def_id}}
                chosen == store'[i].credential_offer.cred_def_id
            IN /\ store'[i].credential_definition_id = chosen
               /\ proposal.cred_def_id # None
                     => chosen = proposal.cred_def_id
               /\ \E r \in matching :
                     /\ r.cred_def_id = chosen
                     /\ \A q \in matching :
                           Decimal(q.epoch) <= Decimal(r.epoch)]_vars

\* An offer was made on a proposal that names no cred-def: of the two sent
\* cred-defs, both matching, the one of epoch 10 was chosen over that of
\* epoch 9.
C31_Witness ==
    /\ last.op = "create_offer"
    /\ last.err = "ok"
    /\ store[last.id].credential_proposal_dict.cred_def_id = None
    /\ store[last.id].credential_proposal_dict.schema_id = None
    /\ Cardinality(FoundCredDefs(store[last.id].credential_proposal_dict)) = 2
    /\ store[last.id].credential_definition_id = "cd2"

(* -------------------- create_request under the cache lease ------------ *)

\* The cache key of the call of task q.
RequestKeyOf(q) == RequestCacheKey(running[q].rec, running[q].holder_did)

\* Tasks holding the lease on a credential_request:: cache key.
RequestLeaseHolders(key) ==
    {q \in DOMAIN running :
        /\ running[q].flow = "create_request"
        /\ RequestKeyOf(q) = key
        /\ running[q].pc \in {"leased", "holder", "set_result"}}

\* cache.acquire(cache_key): the lease is exclusive, a caller waits while
\* another task holds it.
RequestLeaseFree(key) == RequestLeaseHolders(key) = {}

\* A caller that never finds a result in the cache entry.
RequestEntryIgnored(key) == FALSE

\* if entry.result: the entry holds a request and its metadata.
RequestEntryHasResult(key) == key \in DOMAIN requestCache

\* holder.create_credential_request, called for the n-th time: the request
\* answers the offer's nonce, the metadata hold blinding data made anew by
\* every call.
HolderCreateRequestAnew(offer, cd, holder_did, n) ==
    [request |-> HolderCreateRequest(offer, cd, holder_did).request,
     metadata |-> [nonce |-> n]]

\* The request and metadata set on the record in memory.
WithRequest(rec, result) ==
    [rec EXCEPT !.credential_request = result.request,
                !.credential_request_metadata = result.metadata]

\* async with cache.acquire(cache_key) as entry: entry.result is adopted, or
\* the lease is kept while the request is generated.
create_request_acquire(p) ==
    /\ At(p, "create_request", "create")
    /\ CacheInjected
    /\ RequestLeaseFree(RequestKeyOf(p))
    /\ LET f == running[p]
           key == RequestKeyOf(p)
       IN IF RequestEntryHasResult(key)
          THEN Suspend(p, [f EXCEPT !.pc = "save",
                                    !.rec = WithRequest(f.rec, requestCache[key]),
                                    !.calls = @ \cup {"cache"}])
          ELSE Suspend(p, [f EXCEPT !.pc = "leased",
                                    !.calls = @ \cup {"cache"}])
    /\ UNCHANGED <<store, nextId, nextThread, cacheOn, preserve, offerCache,
                   requestCache, nonceCtr, regs, pending, task, last>>

\* _create() begins, inside the lease or without a cache: the cred-def is
\* fetched and the holder is awaited.
create_request_call_holder(p) ==
    /\ \/ At(p, "create_request", "leased")
       \/ At(p, "create_request", "create") /\ ~CacheInjected
    /\ Suspend(p, [running[p] EXCEPT !.pc = "holder",
                                     !.calls = @ \cup {"ledger", "holder"}])
    /\ UNCHANGED <<store, nextId, nextThread, cacheOn, preserve, offerCache,
                   requestCache, nonceCtr, regs, pending, task, last>>

\* The holder returns the request and its metadata.
create_request_holder_returns(p) ==
    /\ At(p, "create_request", "holder")
    /\ LET f == running[p]
           result == HolderCreateRequestAnew(f.rec.credential_offer, f.cd,
                                             f.holder_did, nonceCtr + 1)
       IN Suspend(p, [f EXCEPT !.pc = IF CacheInjected THEN "set_result"
                                      ELSE "save",
                               !.rec = WithRequest(f.rec, result)])
    /\ nonceCtr' = nonceCtr + 1
    /\ UNCHANGED <<store, nextId, nextThread, cacheOn, preserve, offerCache,
                   requestCache, regs, pending, task, last>>

\* entry.set_result(cred_req_result, 3600), and the lease ends.
create_request_set_result(p) ==
    /\ At(p, "create_request", "set_result")
    /\ LET f == running[p]
           key == RequestKeyOf(p)
       IN requestCache' =
              [k \in DOMAIN requestCache \cup {key} |->
                  IF k = key
                  THEN [request |-> f.rec.credential_request,
                        metadata |-> f.rec.credential_request_metadata]
                  ELSE requestCache[k]]
    /\ Suspend(p, [running[p] EXCEPT !.pc = "save"])
    /\ UNCHANGED <<store, nextId, nextThread, cacheOn, preserve, offerCache,
                   nonceCtr, regs, pending, task, last>>

\* Offers carrying one nonce arrive on two threads, and create_request calls
\* on the records interleave at every point where they wait.
NextSingleFlight ==
    \/ \E c \in Conns :
          create_proposal(c, Proposal1, AutoRemove("unset"))
          /\ InboundInBounds' /\ UNCHANGED wire
    \/ \E c \in Conns, t \in Threads :
          receive_offer(c, t, {"name", "date"}, <<Offer1>>)
          /\ InboundInBounds' /\ UNCHANGED wire
    \/ \E p \in Procs, i \in DOMAIN store, did \in HolderDids :
          create_request_begin(p, i, did) /\ UNCHANGED wire
    \/ \E p \in Procs : create_request_acquire(p) /\ UNCHANGED wire
    \/ \E p \in Procs : create_request_call_holder(p) /\ UNCHANGED wire
    \/ \E p \in Procs :
          create_request_holder_returns(p) /\ nonceCtr' <= MaxNonce
          /\ UNCHANGED wire
    \/ \E p \in Procs : create_request_set_result(p) /\ UNCHANGED wire
    \/ \E p \in Procs : create_request_save(p) /\ UNCHANGED wire

SpecSingleFlight == Init /\ [][NextSingleFlight]_vars

\* Calls of create_request awaiting the holder under a cache key.
HolderInFlight(key) ==
    {q \in DOMAIN running :
        /\ running[q].flow = "create_request"
        /\ running[q].pc = "holder"
        /\ RequestKeyOf(q) = key}

\* The cache keys of the records that have an offer.
RequestKeys ==
    {RequestCacheKey(store[i], did) :
        i \in {j \in DOMAIN store : store[j].credential_offer # NoOffer},
        did \in HolderDids}

\* C32: with a cache, create_request calls under one cache key have at most
\* one holder call in flight, the holder is called once in all (every record
\* here has the same key), and every record persisted with a request has the
\* request and metadata of that one call.
C32_RequestSingleFlight ==
    CacheInjected
    => /\ \A key \in RequestKeys : Cardinality(HolderInFlight(key)) <= 1
       /\ Cardinality(RequestKeys) <= 1
       /\ nonceCtr <= 1
       /\ \A i \in DOMAIN store :
             store[i].credential_request # NoRequest
             => /\ nonceCtr = 1
                /\ store[i].credential_request_metadata = [nonce |-> 1]
                /\ \A j \in DOMAIN store :
                      store[j].credential_request # NoRequest
                      => /\ store[j].credential_request
                              = store[i].credential_request
                         /\ store[j].credential_request_metadata
                              = store[i].credential_request_metadata

\* Two records under one key are both saved as REQUEST_SENT with one pair;
\* the call that ended last took it from the cache while the holder had
\* been called once.
C32_Witness ==
    /\ CacheInjected
    /\ Cardinality(DOMAIN store) = 2
    /\ \A i \in DOMAIN store :
          /\ store[i].state = STATE_REQUEST_SENT
          /\ store[i].credential_request_metadata = [nonce |-> 1]
    /\ nonceCtr = 1
    /\ last.op = "create_request"
    /\ last.err = "ok"
    /\ "cache" \in last.calls
    /\ "holder" \notin last.calls

(* ------------------------- offers and their records ------------------- *)

\* C33: a receive_offer that finds a record of the connection and thread
\* saves that record as OFFER_RECEIVED with the offer and adds no record;
\* one that finds none adds exactly one record, in OFFER_RECEIVED, with role
\* HOLDER, initiator EXTERNAL and the offer's schema_id and cred_def_id. No
\* other record changes.
C33_OfferUpdatesOrCreates ==
    [][\A c \in Conns, t \in Threads, o \in Attachments({Offer1}) :
         (receive_offer(c, t, {"name", "date"}, o) /\ last'.err = "ok")
         => LET found == ByConnectionAndThread(c, t)
                id == last'.id
            IN /\ store'[id].state = STATE_OFFER_RECEIVED
               /\ store'[id].credential_offer = o[1]
               /\ store'[id].schema_id = o[1].schema_id
               /\ store'[id].credential_definition_id = o[1].cred_def_id
               /\ \A j \in DOMAIN store \ {id} : store'[j] = store[j]
               /\ IF found # {}
                  THEN /\ id \in found
                       /\ DOMAIN store' = DOMAIN store
                       /\ store'[id].role = store[id].role
                       /\ store'[id].initiator = store[id].initiator
                  ELSE /\ id \notin DOMAIN store
                       /\ DOMAIN store' = DOMAIN store \cup {id}
                       /\ store'[id].role = ROLE_HOLDER
                       /\ store'[id].initiator = INITIATOR_EXTERNAL
                       /\ store'[id].connection_id = c
                       /\ store'[id].thread_id = t]_vars

\* An offer made the one record of its thread, the credential arrived, and
\* the offer arriving again was saved on the same record: it is back in
\* OFFER_RECEIVED, still the only record, with the credential received.
C33_Witness ==
    /\ last.op = "receive_offer"
    /\ last.err = "ok"
    /\ DOMAIN store = {last.id}
    /\ store[last.id].state = STATE_OFFER_RECEIVED
    /\ store[last.id].role = ROLE_HOLDER
    /\ store[last.id].initiator = INITIATOR_EXTERNAL
    /\ store[last.id].raw_credential # NoCredential

(* ------------------------------ role and state ------------------------ *)

\* The states a record of each role is persisted in.
HolderStates ==
    {STATE_PROPOSAL_SENT, STATE_OFFER_RECEIVED, STATE_REQUEST_SENT,
     STATE_CREDENTIAL_RECEIVED, STATE_ACKED, None}
IssuerStates ==
    {STATE_PROPOSAL_RECEIVED, STATE_OFFER_SENT, STATE_REQUEST_RECEIVED,
     STATE_ISSUED, STATE_ACKED, None}

\* C34: a record with role HOLDER is persisted only in a holder's state and
\* a record with role ISSUER only in an issuer's state, whatever messages
\* arrive on its thread.
C34_RoleMatchesState ==
    \A i \in DOMAIN store :
        /\ store[i].role = ROLE_HOLDER => store[i].state \in HolderStates
        /\ store[i].role = ROLE_ISSUER => store[i].state \in IssuerStates

\* The role of a record is the one it was created with.
RoleNeverChanges ==
    [][\A i \in DOMAIN store \cap DOMAIN store' :
          store'[i].role = store[i].role]_vars

(* ---------------------------- storing the credential ------------------ *)

RECURSIVE SlotsTaken(_)
SlotsTaken(n) == IF n = 0 THEN 0 ELSE SlotsTaken(n - 1) + regs[n].count

\* C36: where this agent's exchanges are the only takers of registry slots,
\* no more slots are taken than there are exchange records: the issuer's
\* create_credential succeeds at most once for a record, also when a call
\* is cancelled after the credential was created and before the save, and
\* issue_credential is called again.
C36_OneSlotPerExchange == SlotsTaken(Len(regs)) <= Cardinality(DOMAIN store)

(* ------------------------- order between the peers -------------------- *)

\* The exchange of a peer on a thread ends in this step: its record becomes
\* ACKED or is removed.
EndsNow(conn, thid) ==
    /\ PeerRecords(conn, thid) # {}
    /\ ~PeerIn(conn, thid, STATE_ACKED)
    /\ PeerIn(conn, thid, STATE_ACKED)' \/ PeerRecords(conn, thid)' = {}

\* C37: between two peers whose inbound messages are the ones the other
\* sent, the holder's record becomes CREDENTIAL_RECEIVED only while the
\* issuer's record of the thread is stored as ISSUED; the holder's exchange
\* ends only from CREDENTIAL_RECEIVED; and the issuer's record becomes ACKED
\* (or is removed on the ack) only from ISSUED and when the holder's
\* exchange, having been in CREDENTIAL_RECEIVED, has ended.
C37_IssuedBeforeReceivedBeforeAcked ==
    [][\A t \in 1..MaxExchanges :
         /\ (/\ ~PeerIn(HolderConn, t, STATE_CREDENTIAL_RECEIVED)
             /\ PeerIn(HolderConn, t, STATE_CREDENTIAL_RECEIVED)')
            => /\ PeerRecords(IssuerConn, t) # {}
               /\ \A i \in PeerRecords(IssuerConn, t) :
                     store[i].state = STATE_ISSUED
         /\ EndsNow(HolderConn, t)
            => \A i \in PeerRecords(HolderConn, t) :
                  store[i].state = STATE_CREDENTIAL_RECEIVED
         /\ EndsNow(IssuerConn, t)
            => /\ \A i \in PeerRecords(IssuerConn, t) :
                     store[i].state = STATE_ISSUED
               /\ t <= nextThread
               /\ \A i \in PeerRecords(HolderConn, t) :
                     store[i].state = STATE_ACKED]_vars

\* The issuer's record of the first exchange, kept, is ACKED after the ack
\* arrived; the holder's record is ACKED as well.
C37_Witness ==
    /\ last.op = "receive_credential_ack"
    /\ last.err = "ok"
    /\ PeerIn(IssuerConn, 1, STATE_ACKED)
    /\ PeerIn(HolderConn, 1, STATE_ACKED)
    /\ \A i \in PeerRecords(HolderConn, 1) :
          store[i].raw_credential # NoCredential

(* --------------------------- binding a connection --------------------- *)

\* Connections on which a request can arrive.
RequestConns == {"c1", "c2"}

\* Offers sent with and without a connection, proposals received, and
\* requests arriving on either connection for any thread.
NextBind ==
    \/ \E c \in Conns \cup {None} :
          prepare_send(c, Proposal1, "unset") /\ InboundInBounds'
          /\ UNCHANGED wire
    \/ \E c \in Conns, t \in Threads :
          receive_proposal(c, t, Proposal1) /\ InboundInBounds'
          /\ UNCHANGED wire
    \/ \E c \in RequestConns, t \in Threads,
          r \in Attachments({Request1}) :
          receive_request(c, t, r) /\ UNCHANGED wire
    \/ \E c \in RequestConns, t \in Threads :
          receive_credential_ack(c, t) /\ UNCHANGED wire

SpecBind == Init /\ [][NextBind]_vars

\* C38: no step changes a connection_id that is set; a receive_request
\* gives the sender's connection only to a record of the message's thread
\* that has none, and only when the connection has no record of the thread;
\* it adds no record; and when it finds neither kind of record it raises and
\* the store is as before.
C38_ConnectionBoundOnce ==
    [][/\ \A i \in DOMAIN store \cap DOMAIN store' :
             store[i].connection_id # None
             => store'[i].connection_id = store[i].connection_id
       /\ \A c \in RequestConns, t \in Threads,
             r \in Attachments({Request1}) :
             receive_request(c, t, r)
             => /\ DOMAIN store' = DOMAIN store
                /\ \A i \in DOMAIN store :
                      store'[i].connection_id # store[i].connection_id
                      => /\ store[i].connection_id = None
                         /\ store[i].thread_id = t
                         /\ store'[i].connection_id = c
                         /\ ByConnectionAndThread(c, t) = {}
                /\ \A i \in DOMAIN store :
                      store'[i] # store[i] => store[i].thread_id = t
                /\ (/\ ByConnectionAndThread(c, t) = {}
                    /\ ByThreadNoConnection(t) = {})
                   => /\ last'.err # "ok"
                      /\ store' = store]_vars

\* An offer sent without a connection was bound to c2 by the request that
\* arrived there; a later request for a thread on a connection that has no
\* record of it, with no unbound record of the thread left, was refused.
C38_Witness ==
    /\ last.op = "receive_request"
    /\ last.err = "CantStartFromRequest"
    /\ \E i \in DOMAIN store :
          /\ store[i].connection_id = "c2"
          /\ store[i].initiator = INITIATOR_SELF
          /\ store[i].state = STATE_REQUEST_RECEIVED
    /\ \A i \in DOMAIN store : store[i].connection_id # None
====
